---- MODULE Spec2Model ----
(***************************************************************************)
(* A model of the worktree indexing core of src/zed/src/worktree.rs: the   *)
(* Snapshot (entry index + ignore map + scan id), the BackgroundScanner    *)
(* (scan_dirs, scan_dir, process_events, the two ignore passes) and the    *)
(* disk and filesystem-event stream they read.                             *)
(*                                                                         *)
(* A path is a sequence of component names (<<>> is the root, "").  The    *)
(* index is a function from the paths it holds to their Entry; the sum     *)
(* tree's cursor operations work on the path-ordered sequence of entries.  *)
(***************************************************************************)
EXTENDS Integers, Sequences, FiniteSets, TLC

\* ------------------------------------------------------------------ bounds

\* Disk mutations the environment performs after the initial scan.
MaxMutations == 2

\* ------------------------------------------------------------------- paths

GITIGNORE == ".gitignore"

RootPath == <<>>

\* The bounded universe of relative paths the disk can hold.
Paths ==
  { <<>>,
    <<".git">>, <<".git", "f">>,
    <<".gitignore">>,
    <<"a">>, <<"a", ".gitignore">>, <<"a", "f">>,
    <<"b">>, <<"b", ".gitignore">>, <<"b", "f">> }

\* Byte order of the component names ('.' sorts before letters).
NameRank(n) ==
  CASE n = ".git" -> 1
    [] n = ".gitignore" -> 2
    [] n = "a" -> 3
    [] n = "b" -> 4
    [] n = "f" -> 5

Min2(x, y) == IF x <= y THEN x ELSE y

\* Path::cmp: component-wise lexicographic order.
PathLess(p, q) ==
  \E i \in 1..(Min2(Len(p), Len(q)) + 1) :
    /\ \A j \in 1..(i - 1) : p[j] = q[j]
    /\ \/ i > Len(p) /\ i <= Len(q)
       \/ i <= Len(p) /\ i <= Len(q) /\ NameRank(p[i]) < NameRank(q[i])

\* Path::starts_with: q is a component-wise prefix of p.
starts_with(p, q) == Len(q) <= Len(p) /\ SubSeq(p, 1, Len(q)) = q

\* Path::strip_prefix (the caller knows p starts with q).
strip_prefix(p, q) == SubSeq(p, Len(q) + 1, Len(p))

\* Path::parent for a non-root path.
parent(p) == SubSeq(p, 1, Len(p) - 1)

\* Path::file_name ("" for the root, which has none).
file_name(p) == IF Len(p) = 0 THEN "" ELSE p[Len(p)]

\* The paths of a set in Path order, as the sum tree keeps them.
RECURSIVE SortPaths(_)
SortPaths(S) ==
  IF S = {} THEN <<>>
  ELSE LET m == CHOOSE x \in S : \A y \in S : x = y \/ PathLess(x, y)
       IN <<m>> \o SortPaths(S \ {m})

\* --------------------------------------------------------- gitignore rules

\* One line of a .gitignore: a name pattern without slash (matches the last
\* component at any depth), "name/" (only_dir) or "!name" (whitelist).
Rule(pat, only_dir, whitelist) ==
  [pat |-> pat, only_dir |-> only_dir, whitelist |-> whitelist]

\* The contents a .gitignore file on disk can have.
RuleSets ==
  { <<Rule("f", FALSE, FALSE)>>,
    <<Rule("f", FALSE, TRUE)>>,
    <<Rule("f", TRUE, FALSE)>>,
    <<Rule("a", FALSE, FALSE)>> }

NoRules == <<>>

\* Gitignore::matched_stripped: the last rule that matches the candidate wins.
RECURSIVE matched_stripped(_, _, _, _)
matched_stripped(rules, i, cand, is_dir) ==
  IF i = 0 \/ cand = <<>> THEN "None"
  ELSE IF /\ rules[i].pat = cand[Len(cand)]
          /\ (~rules[i].only_dir \/ is_dir)
       THEN (IF rules[i].whitelist THEN "Whitelist" ELSE "Ignore")
       ELSE matched_stripped(rules, i - 1, cand, is_dir)

\* The walk of matched_path_or_any_parents over the parents of the path,
\* each consulted as a directory.
RECURSIVE matched_parents(_, _)
matched_parents(rules, path) ==
  IF Len(path) = 0 THEN "None"
  ELSE LET up == parent(path)
           m == matched_stripped(rules, Len(rules), up, TRUE)
       IN IF m # "None" THEN m ELSE matched_parents(rules, up)

\* Gitignore::matched_path_or_any_parents(path, is_dir).
matched_path_or_any_parents(rules, path, is_dir) ==
  IF Len(rules) = 0 THEN "None"
  ELSE LET m == matched_stripped(rules, Len(rules), path, is_dir)
       IN IF m # "None" THEN m ELSE matched_parents(rules, path)

\* ------------------------------------------------------------------ entries

\* Entry { kind, path, inode, is_ignored }; is_ignored is an Option<bool>.
Entry(kind, path, inode, is_ignored) ==
  [kind |-> kind, path |-> path, inode |-> inode, is_ignored |-> is_ignored]

\* Entry::is_dir.
is_dir(e) == e.kind \in {"Dir", "PendingDir"}

\* Entry::set_ignored.
set_ignored(e, ignored) ==
  [e EXCEPT !.is_ignored = IF ignored THEN "Some(true)" ELSE "Some(false)"]

\* Mutant of visible_of: only a file classified Some(false) is visible.
visible_of_some_false(e) == IF e.is_ignored = "Some(false)" THEN 1 ELSE 0

\* The visible count of one File entry: is_ignored.unwrap_or(false) decides.
visible_of(e) == IF e.is_ignored = "Some(true)" THEN 0 ELSE 1

\* Mutant of summary: a populated directory is counted as a file.
summary_counting_dirs(e) ==
  [max_path |-> e.path,
   file_count |-> IF e.kind \in {"File", "Dir"} THEN 1 ELSE 0,
   visible_file_count |-> IF e.kind = "File" THEN visible_of(e) ELSE 0,
   recompute_ignore_status |-> e.is_ignored = "None"]

\* <Entry as sum_tree::Item>::summary.
summary(e) ==
  [max_path |-> e.path,
   file_count |-> IF e.kind = "File" THEN 1 ELSE 0,
   visible_file_count |-> IF e.kind = "File" THEN visible_of(e) ELSE 0,
   recompute_ignore_status |-> e.is_ignored = "None"]

\* EntrySummary::default.
default_summary ==
  [max_path |-> <<>>, file_count |-> 0, visible_file_count |-> 0,
   recompute_ignore_status |-> FALSE]

\* <EntrySummary as AddAssign>::add_assign.
add_assign(l, r) ==
  [max_path |-> r.max_path,
   file_count |-> l.file_count + r.file_count,
   visible_file_count |-> l.visible_file_count + r.visible_file_count,
   recompute_ignore_status |->
     l.recompute_ignore_status \/ r.recompute_ignore_status]

\* -------------------------------------------------------- the entry index

SortedUniverse == SortPaths(Paths)

\* The items of a SumTree<Entry> in key order.
Items(entries) ==
  LET keys == SelectSeq(SortedUniverse, LAMBDA p : p \in DOMAIN entries)
  IN [i \in 1..Len(keys) |-> entries[keys[i]]]

\* The summary of the first n items: what a cursor has accumulated when it
\* stands after them.
RECURSIVE SummaryOf(_, _)
SummaryOf(items, n) ==
  IF n = 0 THEN default_summary
  ELSE add_assign(SummaryOf(items, n - 1), summary(items[n]))

\* SumTree::summary of the whole tree.
tree_summary(entries) ==
  LET items == Items(entries) IN SummaryOf(items, Len(items))

Exact(p) == [tag |-> "Exact", path |-> p]
Successor(p) == [tag |-> "Successor", path |-> p]

path_cmp(a, b) ==
  IF a = b THEN "Equal" ELSE IF PathLess(a, b) THEN "Less" ELSE "Greater"

\* Mutant of PathSearch_cmp: Successor(a) is compared like Exact(a).
PathSearch_cmp_plain(x, y) ==
  IF y.tag = "Exact" THEN path_cmp(x.path, y.path) ELSE "todo"

\* <PathSearch as Ord>::cmp; the two arms the source leaves as todo!() give
\* "todo".
PathSearch_cmp(x, y) ==
  IF x.tag = "Exact" /\ y.tag = "Exact" THEN path_cmp(x.path, y.path)
  ELSE IF x.tag = "Successor" /\ y.tag = "Exact"
       THEN (IF starts_with(y.path, x.path) THEN "Greater"
             ELSE path_cmp(x.path, y.path))
       ELSE "todo"

int_cmp(a, b) == IF a = b THEN "Equal" ELSE IF a < b THEN "Less" ELSE "Greater"

\* Mutant of dim_cmp: the cursor position is compared with the target, the
\* operands the other way round.
dim_cmp_swapped(dim, target, s) ==
  CASE dim = "PathSearch" -> PathSearch_cmp(Exact(s.max_path), target)
    [] dim = "FileCount" -> int_cmp(s.file_count, target)
    [] dim = "VisibleFileCount" -> int_cmp(s.visible_file_count, target)

\* The comparison of a seek target with a cursor position in one dimension
\* of the summary (PathSearch, FileCount or VisibleFileCount).
dim_cmp(dim, target, s) ==
  CASE dim = "PathSearch" -> PathSearch_cmp(target, Exact(s.max_path))
    [] dim = "FileCount" -> int_cmp(target, s.file_count)
    [] dim = "VisibleFileCount" -> int_cmp(target, s.visible_file_count)

\* Cursor::seek / seek_forward from position `from`: the first item whose
\* end is >= the target (bias Left) or > the target (bias Right); Len+1 is
\* the end of the tree.
RECURSIVE seek_from(_, _, _, _, _, _)
seek_from(items, pos, before, dim, target, bias) ==
  IF pos > Len(items) THEN pos
  ELSE LET end == add_assign(before, summary(items[pos]))
           c == dim_cmp(dim, target, end)
       IN IF c = "Less" \/ (bias = "Left" /\ c = "Equal") THEN pos
          ELSE seek_from(items, pos + 1, end, dim, target, bias)

seek_forward(items, from, dim, target, bias) ==
  seek_from(items, from, SummaryOf(items, from - 1), dim, target, bias)

seek(items, dim, target, bias) == seek_forward(items, 1, dim, target, bias)

\* ---------------------------------------------------------------- Snapshot

Snapshot(scan_id, entries, ignores) ==
  [scan_id |-> scan_id, entries |-> entries, ignores |-> ignores]

EmptyMap == [x \in {} |-> 0]

Put(f, k, v) == [x \in DOMAIN f \cup {k} |-> IF x = k THEN v ELSE f[x]]

Drop(f, ks) == [x \in DOMAIN f \ ks |-> f[x]]

\* Snapshot::file_count.
file_count(s) == tree_summary(s.entries).file_count

\* Snapshot::visible_file_count.
visible_file_count(s) == tree_summary(s.entries).visible_file_count

\* Snapshot::entry_for_path: seek(Exact(path), Left), then the item if the
\* seek ended exactly on the path.  has_entry says whether it is Some.
has_entry(s, path) ==
  LET items == Items(s.entries)
      pos == seek(items, "PathSearch", Exact(path), "Left")
  IN /\ pos <= Len(items)
     /\ PathSearch_cmp(Exact(path), Exact(SummaryOf(items, pos).max_path))
          = "Equal"

entry_for_path(s, path) ==
  LET items == Items(s.entries)
  IN items[seek(items, "PathSearch", Exact(path), "Left")]

\* The upward walk of Snapshot::is_path_ignored.  `cur` is the path of the
\* local `entry`, which the loop replaces by the parent entry each round.
RECURSIVE ignore_walk(_, _, _)
ignore_walk(s, path, cur) ==
  IF Len(cur) = 0 \/ ~has_entry(s, parent(cur)) THEN "Ok(false)"
  ELSE LET parent_path == parent(cur)
           m == IF parent_path \in DOMAIN s.ignores
                THEN matched_path_or_any_parents(
                       s.ignores[parent_path].rules,
                       strip_prefix(path, parent_path),
                       is_dir(entry_for_path(s, cur)))
                ELSE "None"
       IN CASE m = "Whitelist" -> "Ok(false)"
            [] m = "Ignore" -> "Ok(true)"
            [] OTHER -> ignore_walk(s, path, parent_path)

\* Mutant of is_path_ignored: no special case for paths under .git.
is_path_ignored_no_git(s, path) ==
  IF ~has_entry(s, path) THEN "Err" ELSE ignore_walk(s, path, path)

\* Snapshot::is_path_ignored: "Err" when the path has no entry.
is_path_ignored(s, path) ==
  IF ~has_entry(s, path) THEN "Err"
  ELSE IF starts_with(path, <<".git">>) THEN "Ok(true)"
       ELSE ignore_walk(s, path, path)

\* Gitignore::new on the file at path: the parsed rules, or an empty ruleset
\* when the file cannot be read as a file (the error is only logged).
parse_ignore(d, path) ==
  IF d[path].kind = "file" THEN d[path].rules ELSE NoRules

\* Snapshot::insert_ignore_file.
insert_ignore_file(s, d, path) ==
  [s EXCEPT !.ignores =
     Put(s.ignores, parent(path),
         [rules |-> parse_ignore(d, path), scan_id |-> s.scan_id])]

\* Snapshot::insert_entry.
insert_entry(s, d, e) ==
  LET s1 == IF ~is_dir(e) /\ file_name(e.path) = GITIGNORE
            THEN insert_ignore_file(s, d, e.path) ELSE s
  IN [s1 EXCEPT !.entries = Put(s1.entries, e.path, e)]

\* SumTree::edit with a set of Edit::Insert: inserts replace existing keys.
edit(entries, inserts) ==
  [p \in DOMAIN entries \cup {e.path : e \in inserts} |->
     IF \E e \in inserts : e.path = p
     THEN CHOOSE e \in inserts : e.path = p
     ELSE entries[p]]

\* populate_dir panics (unwrap on a missing parent, or unreachable!() on a
\* parent that is not PendingDir).
populate_dir_panics(s, parent_path) ==
  \/ parent_path \notin DOMAIN s.entries
  \/ s.entries[parent_path].kind # "PendingDir"

RECURSIVE register_ignores(_, _, _)
register_ignores(s, d, children) ==
  IF children = {} THEN s
  ELSE LET e == CHOOSE x \in children : TRUE
           s1 == IF ~is_dir(e) /\ file_name(e.path) = GITIGNORE
                 THEN insert_ignore_file(s, d, e.path) ELSE s
       IN register_ignores(s1, d, children \ {e})

\* Mutant of populate_dir: the parent becomes Dir and the children are
\* inserted by a later edit.
populate_dir_parent_first(s, d, parent_path, children) ==
  [s EXCEPT !.entries[parent_path].kind = "Dir"]

\* Snapshot::populate_dir (for a parent that is PendingDir).
populate_dir(s, d, parent_path, children) ==
  LET parent_entry == [s.entries[parent_path] EXCEPT !.kind = "Dir"]
      s1 == register_ignores(s, d, children)
  IN [s1 EXCEPT !.entries = edit(s1.entries, {parent_entry} \cup children)]

\* Mutant of remove_path: only the entry at the path itself is dropped, its
\* descendants stay.
remove_path_exact_only(s, path) ==
  LET dir == parent(path)
      ignores == IF file_name(path) = GITIGNORE /\ dir \in DOMAIN s.ignores
                 THEN [s.ignores EXCEPT ![dir].scan_id = s.scan_id]
                 ELSE s.ignores
  IN [s EXCEPT !.entries = [p \in DOMAIN s.entries \ {path} |-> s.entries[p]],
               !.ignores = ignores]

\* Mutant of remove_path: the entries after the removed subtree are not
\* appended again.
remove_path_no_suffix(s, path) ==
  LET items == Items(s.entries)
      cut == seek(items, "PathSearch", Exact(path), "Left")
      kept == {items[i].path : i \in 1..(cut - 1)}
  IN [s EXCEPT !.entries = [p \in kept |-> s.entries[p]]]

\* Snapshot::remove_path: slice(Exact(path), Left) keeps the prefix,
\* seek_forward(Successor(path), Left) skips the subtree, suffix() keeps the
\* rest; a removed .gitignore marks its directory's rules as changed.
remove_path(s, path) ==
  LET items == Items(s.entries)
      cut == seek(items, "PathSearch", Exact(path), "Left")
      rest == seek_forward(items, cut, "PathSearch", Successor(path), "Left")
      kept == {items[i].path : i \in (1..(cut - 1)) \cup (rest..Len(items))}
      dir == parent(path)
      ignores == IF file_name(path) = GITIGNORE /\ dir \in DOMAIN s.ignores
                 THEN [s.ignores EXCEPT ![dir].scan_id = s.scan_id]
                 ELSE s.ignores
  IN [s EXCEPT !.entries = [p \in kept |-> s.entries[p]],
               !.ignores = ignores]

\* ---------------------------------------------------------------- FileIter

\* The value of a count dimension (FileCount or VisibleFileCount) of a
\* summary.
count_of(dim, sm) ==
  IF dim = "FileCount" THEN sm.file_count ELSE sm.visible_file_count

\* <FileIter as Iterator>::next until it returns None, from cursor position
\* pos: yield item(), then next_internal seeks forward to start + 1 with
\* bias Right.
RECURSIVE file_iter(_, _, _)
file_iter(items, pos, dim) ==
  IF pos > Len(items) THEN <<>>
  ELSE LET ix == count_of(dim, SummaryOf(items, pos - 1))
       IN <<items[pos]>> \o
          file_iter(items, seek_forward(items, pos, dim, ix + 1, "Right"), dim)

\* Mutant of files: the initial seek uses SeekBias::Left.
files_left_bias(s, start) ==
  LET items == Items(s.entries)
  IN file_iter(items, seek(items, "FileCount", start, "Left"), "FileCount")

\* Snapshot::files(start) = FileIter::all, collected.
files(s, start) ==
  LET items == Items(s.entries)
  IN file_iter(items, seek(items, "FileCount", start, "Right"), "FileCount")

\* Snapshot::visible_files(start) = FileIter::visible, collected.
visible_files(s, start) ==
  LET items == Items(s.entries)
  IN file_iter(items, seek(items, "VisibleFileCount", start, "Right"),
               "VisibleFileCount")

\* -------------------------------------------------------------------- disk

Absent == [kind |-> "absent", ino |-> 0, rules |-> NoRules]
DiskDir(ino) == [kind |-> "dir", ino |-> ino, rules |-> NoRules]
DiskFile(ino, rules) == [kind |-> "file", ino |-> ino, rules |-> rules]

\* Where the bounded disk may hold a directory, and where a file.
DirPaths == {p \in Paths : Len(p) <= 1}
FilePaths == {p \in Paths : Len(p) = 2} \cup {<<GITIGNORE>>}

exists(d, p) == d[p].kind # "absent"

Subtree(p) == {q \in Paths : starts_with(q, p)}

\* The inode the filesystem gives a new object: the smallest one not in use.
FreshIno(d) ==
  CHOOSE n \in 1..(Cardinality(Paths) + 1) :
    /\ \A p \in Paths : d[p].ino # n
    /\ \A m \in 1..(n - 1) : \E p \in Paths : d[p].ino = m

NoDisk == [p \in Paths |-> Absent]

\* root/{.git/f, .gitignore, a/f} with the given root rules.
BaseTree(rules) ==
  [p \in Paths |->
     CASE p = <<>> -> DiskDir(1)
       [] p = <<".git">> -> DiskDir(2)
       [] p = <<".git", "f">> -> DiskFile(3, NoRules)
       [] p = <<".gitignore">> -> DiskFile(4, rules)
       [] p = <<"a">> -> DiskDir(5)
       [] p = <<"a", "f">> -> DiskFile(6, NoRules)
       [] OTHER -> Absent]

InitTrees == {BaseTree(r) : r \in RuleSets} \cup {NoDisk}

\* BaseTree with another volume mounted at b, holding the file b/f.
MountTree(rules) ==
  [p \in Paths |->
     CASE p = <<"b">> -> DiskDir(7)
       [] p = <<"b", "f">> -> DiskFile(8, NoRules)
       [] OTHER -> BaseTree(rules)[p]]

\* mounted_volume_paths(), without the mounts that contain the root.
MountPoints == {<<"b">>}

\* ------------------------------------------------------------------- state

VARIABLES
  disk,                 \* the directory tree on disk
  pending,              \* filesystem events not yet delivered, in arrival order
  mutations,            \* disk mutations performed so far
  last_mutation,        \* the latest disk mutation
  background_snapshot,  \* BackgroundScanner::snapshot, behind the mutex
  scan_queue,           \* the paths of the ScanJobs in the scan queue
  pc,                   \* where the scanner thread is
  call,                 \* the scanner call in progress or last completed
  other_mount_paths,    \* BackgroundScanner::other_mount_paths
  run_pc,               \* where BackgroundScanner::run is ("direct": not running,
                        \* scan_dirs and process_events are called directly)
  notify,               \* the ScanState messages in the notify channel
  rx_open,              \* the receiving end of the notify channel is alive
  emitted,              \* the ScanStates sent successfully so far
  scan_state,           \* Worktree::scan_state, the watch channel
  observed,             \* the ScanStates observe_scan_state has forwarded
  foreground_snapshot,  \* Worktree::snapshot
  poll_scheduled,       \* Worktree::poll_scheduled
  timers,               \* the 100 ms timers spawned by poll_entries and not fired
  scan_complete,        \* a future returned by Worktree::scan_complete
  next_scan_complete,   \* a future returned by Worktree::next_scan_complete
  probe,                \* one object on disk and the entries made for it
  workers,              \* where each thread of the pool is in its loop
  mutex,                \* who holds the lock of BackgroundScanner::snapshot
  channel,              \* the ScanJobs in the scan queue, in sending order
  job_log               \* per path, the ScanJobs sent and taken in this scan

\* The run loop's channel and the Worktree facade.
facade_vars == <<run_pc, notify, rx_open, emitted, scan_state, observed,
                 foreground_snapshot, poll_scheduled, timers, scan_complete,
                 next_scan_complete>>

\* What only the specifications of single parts of the scanner move.
pool_vars == <<workers, mutex, channel, job_log>>

aside_vars == <<probe, pool_vars>>

vars == <<disk, pending, mutations, last_mutation, background_snapshot,
          scan_queue, pc, call, other_mount_paths, facade_vars, aside_vars>>

\* The mount table does not change while the scanner lives, so every
\* update_other_mount_paths computes the set BackgroundScanner::new computed.
env_vars == <<disk, pending, mutations, last_mutation, other_mount_paths>>

NoMutation == [kind |-> "none", from |-> <<>>, to |-> <<>>]

\* The call record: which scanner function runs (or ran last), what it
\* returned, and the background snapshot and event paths it was called with.
Call(op, ret, before, events) ==
  [op |-> op, ret |-> ret, before |-> before, events |-> events]

\* A future that has not been asked for.
NoFuture == [st |-> "none", seen |-> 0, did_scan |-> FALSE, called_at |-> 0]

\* watch::channel_with(state): the value, its version, and the background
\* snapshot as it was when observe_scan_state forwarded the value.
Watch(value, version, background) ==
  [value |-> value, version |-> version, background |-> background]

\* No object is looked at on its own.
NoProbe == [st |-> "none"]

\* The threads of the pool the model runs (the pool has 16).
NumWorkers == 2

Workers == 1..NumWorkers

\* A thread of the pool outside the `while let Ok(job) = rx.recv()` loop.
Worker(at, job, entries, jobs) ==
  [pc |-> at, job |-> job, new_entries |-> entries, new_jobs |-> jobs]

NoJobs == [sent |-> [p \in Paths |-> 0], taken |-> [p \in Paths |-> 0]]

\* No pool is running.
NoPool ==
  /\ workers = [w \in Workers |-> Worker("off", <<>>, {}, {})]
  /\ mutex = 0
  /\ channel = <<>>
  /\ job_log = NoJobs

NoAside == probe = NoProbe /\ NoPool

\* No Worktree and no run loop: a BackgroundScanner alone, as the tests build
\* it.
NoFacade ==
  /\ run_pc = "direct"
  /\ notify = <<>>
  /\ rx_open = FALSE
  /\ emitted = <<>>
  /\ scan_state = Watch("Scanning", 1, Snapshot(0, EmptyMap, EmptyMap))
  /\ observed = <<>>
  /\ foreground_snapshot = Snapshot(0, EmptyMap, EmptyMap)
  /\ poll_scheduled = FALSE
  /\ timers = 0
  /\ scan_complete = NoFuture
  /\ next_scan_complete = NoFuture

Init ==
  /\ NoFacade
  /\ NoAside
  /\ disk \in InitTrees
  /\ pending = <<>>
  /\ mutations = 0
  /\ last_mutation = NoMutation
  /\ background_snapshot = Snapshot(0, EmptyMap, EmptyMap)
  /\ scan_queue = {}
  /\ pc = "start"
  /\ call = Call("none", "none", Snapshot(0, EmptyMap, EmptyMap), {})
  /\ other_mount_paths = {}

\* --------------------------------------------------------- disk mutations

\* An absolute path above the worktree root (the root's parent directory):
\* strip_prefix(root_abs_path) fails on it, and every path of the tree
\* starts with it. Paths of the tree are kept relative to the root.
OutsidePath == <<"..">>

CanMutate == pc = "idle" /\ mutations < MaxMutations /\ exists(disk, <<>>)

Mutated(d, events, m) ==
  /\ disk' = d
  /\ pending' = pending \o events
  /\ mutations' = mutations + 1
  /\ last_mutation' = m
  /\ UNCHANGED <<background_snapshot, scan_queue, pc, call, other_mount_paths>>

CreateFile(p, rules) ==
  /\ CanMutate
  /\ p \in FilePaths /\ ~exists(disk, p) /\ disk[parent(p)].kind = "dir"
  /\ (file_name(p) = GITIGNORE) = (rules # NoRules)
  /\ Mutated([disk EXCEPT ![p] = DiskFile(FreshIno(disk), rules)], <<p>>,
             [kind |-> "create", from |-> p, to |-> p])

CreateDir(p) ==
  /\ CanMutate
  /\ p \in DirPaths /\ ~exists(disk, p) /\ disk[parent(p)].kind = "dir"
  /\ Mutated([disk EXCEPT ![p] = DiskDir(FreshIno(disk))], <<p>>,
             [kind |-> "create", from |-> p, to |-> p])

WriteIgnore(p, rules) ==
  /\ CanMutate
  /\ file_name(p) = GITIGNORE /\ disk[p].kind = "file"
  /\ disk[p].rules # rules
  /\ Mutated([disk EXCEPT ![p].rules = rules], <<p>>,
             [kind |-> "write", from |-> p, to |-> p])

\* The place under `to` of a path under `from`.
Moved(x, from, to) == to \o strip_prefix(x, from)

Rename(from, to) ==
  /\ CanMutate
  /\ from # <<>> /\ exists(disk, from) /\ ~exists(disk, to)
  /\ disk[parent(to)].kind = "dir" /\ ~starts_with(to, from)
  /\ \A x \in Subtree(from) :
       exists(disk, x) =>
         /\ Moved(x, from, to) \in Paths
         /\ disk[x].kind = "dir" => Moved(x, from, to) \in DirPaths
         /\ disk[x].kind = "file" => Moved(x, from, to) \in FilePaths
  /\ Mutated([p \in Paths |->
                IF starts_with(p, from) THEN Absent
                ELSE IF starts_with(p, to)
                     THEN (LET x == Moved(p, to, from)
                           IN IF x \in Paths THEN disk[x] ELSE Absent)
                     ELSE disk[p]],
             <<from, to>>,
             [kind |-> "rename", from |-> from, to |-> to])

\* An event for a path above the root, with no change below the root.
OutsideEvent ==
  /\ CanMutate
  /\ Mutated(disk, <<OutsidePath>>,
             [kind |-> "outside", from |-> <<>>, to |-> <<>>])

\* Removing a file or a whole directory: one event per removed file, then one
\* per removed directory.
Delete(p) ==
  /\ CanMutate
  /\ p # <<>> /\ exists(disk, p)
  /\ LET gone == {x \in Subtree(p) : exists(disk, x)}
         gone_files == SortPaths({x \in gone : disk[x].kind = "file"})
         gone_dirs == SortPaths({x \in gone : disk[x].kind = "dir"})
     IN Mutated([x \in Paths |-> IF x \in gone THEN Absent ELSE disk[x]],
                gone_files \o gone_dirs,
                [kind |-> "delete", from |-> p, to |-> p])

\* The root itself disappears from disk.
RemoveRoot ==
  /\ CanMutate
  /\ Mutated(NoDisk, << <<>> >>, [kind |-> "delete", from |-> <<>>, to |-> <<>>])

\* ------------------------------------------------------------- the scanner

\* The children read_dir finds in a directory on disk.
read_dir(d, path) == {p \in Paths : p # <<>> /\ parent(p) = path /\ exists(d, p)}

\* The Entry built from the metadata of an object on disk (scan_dir's loop
\* body and fs_entry_for_path build the same record).
fs_entry(d, path) ==
  Entry(IF d[path].kind = "dir" THEN "PendingDir" ELSE "File",
        path, d[path].ino, "None")

\* Mutant of fs_entry_for_path: a path that is not found yields an entry.
fs_entry_for_path_found(d, path) == {fs_entry(d, path)}

\* BackgroundScanner::fs_entry_for_path: None (the empty set) when the path
\* is not found on disk.
fs_entry_for_path(d, path) ==
  IF exists(d, path) THEN {fs_entry(d, path)} ELSE {}

\* The children scan_dir keeps: those whose path is not in other_mount_paths.
scanned_children(d, job) == read_dir(d, job) \ other_mount_paths

\* scan_dir's new_entries for one job.
new_entries(d, job) == {fs_entry(d, p) : p \in scanned_children(d, job)}

\* Mutant of new_jobs: the directory itself is queued again with its
\* children.
new_jobs_again(d, job) ==
  {p \in scanned_children(d, job) : d[p].kind = "dir"} \cup {job}

\* scan_dir's new_jobs for one job.
new_jobs(d, job) == {p \in scanned_children(d, job) : d[p].kind = "dir"}

\* Path::strip_prefix(root_abs_path) succeeds.
strip_prefix_ok(abs_path) == abs_path # OutsidePath

\* Path::cmp on absolute paths: a proper prefix sorts first.
abs_path_less(p, q) ==
  IF p = OutsidePath THEN q # OutsidePath
  ELSE IF q = OutsidePath THEN FALSE
  ELSE PathLess(p, q)

\* Path::starts_with on absolute paths.
abs_starts_with(p, q) ==
  IF q = OutsidePath THEN TRUE
  ELSE p # OutsidePath /\ starts_with(p, q)

RECURSIVE insert_by_path(_, _)
insert_by_path(sorted, p) ==
  IF sorted = <<>> THEN <<p>>
  ELSE IF abs_path_less(Head(sorted), p)
       THEN <<Head(sorted)>> \o insert_by_path(Tail(sorted), p)
       ELSE <<p>> \o sorted

\* The events of a batch after sort_unstable_by(path): every event is kept,
\* equal paths end up adjacent.
RECURSIVE sorted_events(_)
sorted_events(events) ==
  IF events = <<>> THEN <<>>
  ELSE insert_by_path(sorted_events(Tail(events)), Head(events))

\* Mutant of skip_descendants: the lookahead absorbs only equal paths.
RECURSIVE skip_duplicates(_, _)
skip_duplicates(paths, p) ==
  IF paths # <<>> /\ Head(paths) = p
  THEN skip_duplicates(Tail(paths), p)
  ELSE paths

\* The lookahead loop of process_events: drop the following paths that start
\* with the path just taken.
RECURSIVE skip_descendants(_, _)
skip_descendants(paths, p) ==
  IF paths # <<>> /\ abs_starts_with(Head(paths), p)
  THEN skip_descendants(Tail(paths), p)
  ELSE paths

\* The event paths process_events keeps: a path outside the root is logged
\* and skipped before the lookahead; each other path taken from the sorted
\* batch absorbs the following paths that start with it.
RECURSIVE retained(_)
retained(paths) ==
  IF paths = <<>> THEN <<>>
  ELSE IF ~strip_prefix_ok(Head(paths)) THEN retained(Tail(paths))
  ELSE <<Head(paths)>> \o retained(skip_descendants(Tail(paths), Head(paths)))

\* The body of process_events' loop over the retained paths, on the local
\* snapshot: remove_path, re-stat, insert_entry, and a ScanJob for a
\* directory.
RECURSIVE apply_events(_, _, _, _)
apply_events(s, d, paths, jobs) ==
  IF paths = <<>> THEN [snapshot |-> s, jobs |-> jobs]
  ELSE LET path == Head(paths)
           removed == remove_path(s, path)
           found == fs_entry_for_path(d, path)
       IN IF found = {}
          THEN apply_events(removed, d, Tail(paths), jobs)
          ELSE LET e == CHOOSE x \in found : TRUE
               IN apply_events(insert_entry(removed, d, e), d, Tail(paths),
                               IF is_dir(e) THEN jobs \cup {path} ELSE jobs)

\* Mutant of changed_ignore_parents: a changed key is collected even under
\* the key collected last.
RECURSIVE changed_ignore_parents_nested(_, _, _, _)
changed_ignore_parents_nested(s, keys, i, acc) ==
  IF i > Len(keys) THEN acc
  ELSE changed_ignore_parents_nested(s, keys, i + 1,
         IF s.ignores[keys[i]].scan_id = s.scan_id
         THEN Append(acc, keys[i]) ELSE acc)

\* The ignore-map keys pass 1 collects: changed in this scan, and not under
\* the key collected last.
RECURSIVE changed_ignore_parents(_, _, _, _)
changed_ignore_parents(s, keys, i, acc) ==
  IF i > Len(keys) THEN acc
  ELSE LET parent_path == keys[i]
           take == /\ s.ignores[parent_path].scan_id = s.scan_id
                   /\ (acc = <<>> \/ ~starts_with(parent_path, acc[Len(acc)]))
       IN changed_ignore_parents(s, keys, i + 1,
            IF take THEN Append(acc, parent_path) ELSE acc)

\* Mutant of ignores_to_delete: only the directory is looked up.
ignores_to_delete_dir_only(s) ==
  {k \in DOMAIN s.ignores : ~has_entry(s, k)}

\* The ignore-map keys pass 1 deletes: the directory or its .gitignore has
\* no entry.
ignores_to_delete(s) ==
  {k \in DOMAIN s.ignores :
     ~has_entry(s, k) \/ ~has_entry(s, k \o <<GITIGNORE>>)}

\* The entries pass 1 streams for one collected directory: from
\* seek(Exact(dir), Right) on while the item's path starts with dir.
RECURSIVE take_prefixed(_, _, _)
take_prefixed(items, pos, dir) ==
  IF pos <= Len(items) /\ starts_with(items[pos].path, dir)
  THEN {items[pos]} \cup take_prefixed(items, pos + 1, dir)
  ELSE {}

entries_under(s, dir) ==
  LET items == Items(s.entries)
  IN take_prefixed(items, seek(items, "PathSearch", Exact(dir), "Right"), dir)

\* What the workers of both passes do with an entry: set_ignored from
\* is_path_ignored on the pass's snapshot (the entry comes from that
\* snapshot, so the unwrap never sees Err).
classify(snapshot, e) ==
  set_ignored(e, is_path_ignored(snapshot, e.path) = "Ok(true)")

\* BackgroundScanner::compute_ignore_status_for_new_ignores on the live
\* snapshot.
compute_ignore_status_for_new_ignores(live) ==
  LET changed == changed_ignore_parents(
                   live, SortPaths(DOMAIN live.ignores), 1, <<>>)
      gone == ignores_to_delete(live)
      snapshot == [live EXCEPT !.ignores = Drop(@, gone)]
      streamed == UNION {entries_under(snapshot, changed[i]) :
                           i \in 1..Len(changed)}
  IN [live EXCEPT
        !.ignores = Drop(@, gone),
        !.entries = edit(@, {classify(snapshot, e) : e \in streamed})]

\* Mutant of needs_recompute: the filter yields only the pending files.
needs_recompute_files_only(s) ==
  {s.entries[p] : p \in {q \in DOMAIN s.entries :
                           /\ s.entries[q].kind = "File"
                           /\ s.entries[q].is_ignored = "None"}}

\* The entries the summary filter of pass 2 yields.
needs_recompute(s) ==
  {s.entries[p] : p \in {q \in DOMAIN s.entries :
                           summary(s.entries[q]).recompute_ignore_status}}

\* BackgroundScanner::compute_ignore_status_for_new_entries on the live
\* snapshot.
compute_ignore_status_for_new_entries(live) ==
  [live EXCEPT
     !.entries = edit(@, {classify(live, e) : e \in needs_recompute(live)})]

\* Mutant of bump_scan_id: the increment is lost.
bump_scan_id_lost(s) == s

\* `scan_id += 1` at the start of scan_dirs and on process_events' clone.
bump_scan_id(s) == [s EXCEPT !.scan_id = @ + 1]

\* ------------------------------------------------------- scanner actions

\* scan_dirs up to the start of the worker pool: bump scan_id, stat the
\* root, insert the root entry and seed the queue.
ScanDirs ==
  /\ pc = "start"
  /\ LET bumped == bump_scan_id(background_snapshot)
     IN IF ~exists(disk, <<>>)
        THEN /\ background_snapshot' = bumped
             /\ scan_queue' = {}
             /\ pc' = "idle"
             /\ call' = Call("scan_dirs", "Err", background_snapshot, {})
        ELSE /\ background_snapshot' =
                  insert_entry(bumped, disk, fs_entry(disk, <<>>))
             /\ scan_queue' = {<<>>}
             /\ pc' = "scan"
             /\ call' = Call("scan_dirs", "running", background_snapshot, {})
  /\ UNCHANGED env_vars

\* One worker takes one job off the queue and runs scan_dir on it.
ScanDir(job) ==
  /\ pc = "scan"
  /\ job \in scan_queue
  /\ IF disk[job].kind # "dir"
     THEN /\ scan_queue' = scan_queue \ {job}
          /\ UNCHANGED <<background_snapshot, pc>>
     ELSE IF populate_dir_panics(background_snapshot, job)
          THEN /\ pc' = "panicked"
               /\ UNCHANGED <<background_snapshot, scan_queue>>
          ELSE /\ background_snapshot' =
                    populate_dir(background_snapshot, disk, job,
                                 new_entries(disk, job))
               /\ scan_queue' = (scan_queue \ {job}) \cup new_jobs(disk, job)
               /\ pc' = pc
  /\ UNCHANGED <<env_vars, call>>

\* recompute_ignore_statuses, first pass, once the pool has drained the queue.
RecomputeNewIgnores ==
  /\ pc = "scan"
  /\ scan_queue = {}
  /\ background_snapshot' =
       compute_ignore_status_for_new_ignores(background_snapshot)
  /\ pc' = "pass2"
  /\ UNCHANGED <<env_vars, scan_queue, call>>

\* recompute_ignore_statuses, second pass; then scan_dirs returns Ok(()) or
\* process_events returns true.
RecomputeNewEntries ==
  /\ pc = "pass2"
  /\ background_snapshot' =
       compute_ignore_status_for_new_entries(background_snapshot)
  /\ pc' = "idle"
  /\ call' = [call EXCEPT !.ret = IF call.op = "scan_dirs" THEN "Ok" ELSE "true"]
  /\ UNCHANGED <<env_vars, scan_queue>>

\* Mutant of after_abort: the incremented clone is committed before the
\* root is canonicalized.
after_abort_committed(live, local) == local

\* What the mutex holds when process_events returns false: the live snapshot,
\* untouched; the local clone is dropped.
after_abort(live, local) == live

\* process_events on the first n pending events, up to the start of the
\* worker pool: clone and bump scan_id, canonicalize the root (return false
\* if that fails), apply the events to the clone and commit it.
ProcessEvents(n) ==
  /\ pc = "idle"
  /\ n \in 1..Len(pending)
  /\ LET events == SubSeq(pending, 1, n)
         kept == retained(sorted_events(events))
         snapshot == bump_scan_id(background_snapshot)
         done == apply_events(snapshot, disk, kept, {})
         paths == {kept[i] : i \in 1..Len(kept)}
     IN /\ pending' = SubSeq(pending, n + 1, Len(pending))
        /\ IF ~exists(disk, <<>>)
           THEN /\ pc' = "stopped"
                /\ call' = Call("process_events", "false",
                                background_snapshot, paths)
                /\ background_snapshot' =
                     after_abort(background_snapshot, snapshot)
                /\ UNCHANGED scan_queue
           ELSE /\ background_snapshot' = done.snapshot
                /\ scan_queue' = done.jobs
                /\ pc' = "scan"
                /\ call' = Call("process_events", "running",
                                background_snapshot, paths)
  /\ UNCHANGED <<disk, mutations, last_mutation, other_mount_paths>>

\* ------------------------------------------------------------ specification

\* A step of the scanner or of the disk with no run loop and no facade.
Direct(A) == A /\ UNCHANGED facade_vars /\ UNCHANGED aside_vars

Next ==
  \/ Direct(\E p \in FilePaths, r \in RuleSets \cup {NoRules} : CreateFile(p, r))
  \/ Direct(\E p \in DirPaths : CreateDir(p))
  \/ Direct(\E p \in FilePaths, r \in RuleSets : WriteIgnore(p, r))
  \/ Direct(\E p \in Paths, q \in Paths : Rename(p, q))
  \/ Direct(\E p \in Paths : Delete(p))
  \/ Direct(RemoveRoot)
  \/ Direct(OutsideEvent)
  \/ Direct(ScanDirs)
  \/ Direct(\E job \in Paths : ScanDir(job))
  \/ Direct(RecomputeNewIgnores)
  \/ Direct(RecomputeNewEntries)
  \/ Direct(\E n \in 1..(2 * (MaxMutations + 1)) : ProcessEvents(n))

Spec == Init /\ [][Next]_vars

\* ---------------------------------------------------------- the run loop

\* Mutant of on_send: a failed send is ignored.
on_send_ignored(ok, next_pc) == next_pc

\* Where run goes after `notify.send(state)`: on, or out when the send
\* failed (is_err(): return / return false).
on_send(ok, next_pc) == IF ok THEN next_pc ELSE "exited"

\* smol::block_on(self.notify.send(state)): the send fails when the
\* receiving end is gone.
Send(state, next_pc) ==
  /\ notify' = IF rx_open THEN Append(notify, state) ELSE notify
  /\ emitted' = IF rx_open THEN Append(emitted, state) ELSE emitted
  /\ run_pc' = on_send(rx_open, next_pc)

facade_only == <<rx_open, scan_state, observed, foreground_snapshot,
                 poll_scheduled, timers, scan_complete, next_scan_complete>>

scanner_vars == <<background_snapshot, scan_queue, pc, call>>

\* run: the first send, before scan_dirs.
RunBegin ==
  /\ run_pc = "begin"
  /\ Send("Scanning", "scan_dirs")
  /\ UNCHANGED <<env_vars, scanner_vars, facade_only>>

\* run calls scan_dirs.
RunScanDirs ==
  /\ run_pc = "scan_dirs"
  /\ ScanDirs
  /\ run_pc' = "in_scan_dirs"
  /\ UNCHANGED <<notify, emitted, facade_only>>

\* The workers and the two ignore passes inside scan_dirs or process_events.
RunWorkers ==
  /\ run_pc \in {"in_scan_dirs", "in_process_events"}
  /\ \/ \E job \in Paths : ScanDir(job)
     \/ RecomputeNewIgnores
     \/ RecomputeNewEntries
  /\ UNCHANGED facade_vars

\* Mutant of scan_dirs_sends: no Idle after an Err.
scan_dirs_sends_err_only(ret) == IF ret = "Err" THEN <<"Err">> ELSE <<"Idle">>

\* What run sends once scan_dirs has returned: Err(e) on an error, and
\* Idle in either case.
scan_dirs_sends(ret) == IF ret = "Err" THEN <<"Err", "Idle">> ELSE <<"Idle">>

\* The sends of run once scan_dirs has returned, the i-th of them; after
\* the last one event_stream.run waits for events.
RunSendAfterScanDirs(i) ==
  /\ \/ i = 1 /\ run_pc = "in_scan_dirs" /\ pc = "idle"
     \/ i = 2 /\ run_pc = "send_second"
  /\ i <= Len(scan_dirs_sends(call.ret))
  /\ Send(scan_dirs_sends(call.ret)[i],
          IF i < Len(scan_dirs_sends(call.ret)) THEN "send_second" ELSE "wait")
  /\ UNCHANGED <<env_vars, scanner_vars, facade_only>>

\* The event stream calls back with a batch: send Scanning.
RunCallback ==
  /\ run_pc = "wait" /\ pending # <<>>
  /\ Send("Scanning", "process_events")
  /\ UNCHANGED <<env_vars, scanner_vars, facade_only>>

\* The callback calls process_events on the batch, the first n events.
RunProcessEvents(n) ==
  /\ run_pc = "process_events"
  /\ ProcessEvents(n)
  /\ run_pc' = "in_process_events"
  /\ UNCHANGED <<notify, emitted, facade_only>>

\* process_events returned true: send Idle and return true.
RunCallbackIdle ==
  /\ run_pc = "in_process_events" /\ pc = "idle"
  /\ Send("Idle", "wait")
  /\ UNCHANGED <<env_vars, scanner_vars, facade_only>>

\* run has returned or the callback has returned false: the scanner is over.
RunOver == run_pc = "exited" \/ pc = "stopped"

\* The number of disk changes made while the Worktree is open.
FacadeMutations == 1

\* The disk changes while the event stream waits.
RunDisk ==
  /\ run_pc = "wait" /\ mutations < FacadeMutations
  /\ \/ CreateDir(<<"b">>)
     \/ Delete(<<"a">>)
     \/ RemoveRoot
  /\ UNCHANGED facade_vars

\* ------------------------------------------------------------ the facade

\* Mutant of schedules_poll: poll_scheduled is not consulted.
schedules_poll_unguarded(scanning, scheduled) == scanning

\* poll_entries spawns a timer: is_scanning() && !poll_scheduled.
schedules_poll(scanning, scheduled) == scanning /\ ~scheduled

\* Mutant of polled_snapshot: the foreground snapshot is not replaced.
polled_snapshot_kept(background, foreground) == foreground

\* poll_entries' `self.snapshot = self.background_snapshot.lock().clone()`.
polled_snapshot(background, foreground) == background

\* A timer is spawned only below MaxTimers pending ones.
MaxTimers == 2

\* Worktree::poll_entries with the watch channel holding `value` and
\* `pending_timers` timers not yet fired.
poll_entries(value, scheduled, pending_timers) ==
  /\ foreground_snapshot' =
       polled_snapshot(background_snapshot, foreground_snapshot)
  /\ IF schedules_poll(value = "Scanning", scheduled)
     THEN /\ timers' = IF pending_timers < MaxTimers
                       THEN pending_timers + 1 ELSE pending_timers
          /\ poll_scheduled' = TRUE
     ELSE /\ timers' = pending_timers
          /\ poll_scheduled' = scheduled

\* Worktree::observe_scan_state on the next message of the notify channel.
ObserveScanState ==
  /\ rx_open /\ notify # <<>>
  /\ notify' = Tail(notify)
  /\ scan_state' = Watch(Head(notify), scan_state.version + 1,
                         background_snapshot)
  /\ observed' = Append(observed, Head(notify))
  /\ poll_entries(Head(notify), poll_scheduled, timers)
  /\ UNCHANGED <<env_vars, scanner_vars, run_pc, rx_open, emitted,
                 scan_complete, next_scan_complete>>

\* The 100 ms timer fires: poll_scheduled = false; poll_entries.
TimerFires ==
  /\ rx_open /\ timers > 0
  /\ poll_entries(scan_state.value, FALSE, timers - 1)
  /\ UNCHANGED <<env_vars, scanner_vars, run_pc, notify, rx_open, emitted,
                 scan_state, observed, scan_complete, next_scan_complete>>

\* The Worktree is dropped and with it the receiving end of notify.
DropWorktree ==
  /\ rx_open
  /\ rx_open' = FALSE
  /\ notify' = <<>>
  /\ timers' = 0
  /\ UNCHANGED <<env_vars, scanner_vars, run_pc, emitted, scan_state,
                 observed, foreground_snapshot, poll_scheduled,
                 scan_complete, next_scan_complete>>

\* Worktree::scan_complete is called: the future holds a clone of the
\* receiver. One future is awaited per run.
CallScanComplete ==
  /\ rx_open /\ scan_complete.st = "none" /\ next_scan_complete.st = "none"
  /\ scan_complete' = [NoFuture EXCEPT !.st = "pending",
                                       !.called_at = Len(observed)]
  /\ UNCHANGED <<env_vars, scanner_vars, run_pc, notify, rx_open, emitted,
                 scan_state, observed, foreground_snapshot, poll_scheduled,
                 timers, next_scan_complete>>

\* The scan_complete future is polled, at first or after the watch channel
\* changed: it is done unless the value it reads is Scanning.
PollScanComplete ==
  /\ rx_open /\ scan_complete.st = "pending"
  /\ scan_complete.seen < scan_state.version
  /\ scan_complete' =
       [scan_complete EXCEPT
          !.st = IF scan_state.value = "Scanning" THEN "pending" ELSE "done",
          !.seen = scan_state.version]
  /\ UNCHANGED <<env_vars, scanner_vars, run_pc, notify, rx_open, emitted,
                 scan_state, observed, foreground_snapshot, poll_scheduled,
                 timers, next_scan_complete>>

\* Worktree::next_scan_complete is called: did_scan is set from the value
\* the channel holds now. One future is awaited per run.
CallNextScanComplete ==
  /\ rx_open /\ next_scan_complete.st = "none" /\ scan_complete.st = "none"
  /\ next_scan_complete' =
       [NoFuture EXCEPT !.st = "pending",
                        !.did_scan = (scan_state.value = "Scanning"),
                        !.called_at = Len(observed)]
  /\ UNCHANGED <<env_vars, scanner_vars, run_pc, notify, rx_open, emitted,
                 scan_state, observed, foreground_snapshot, poll_scheduled,
                 timers, scan_complete>>

\* The next_scan_complete future is polled: Scanning sets did_scan, any
\* other value ends the loop once did_scan is set; else it awaits a change.
PollNextScanComplete ==
  /\ rx_open /\ next_scan_complete.st = "pending"
  /\ next_scan_complete.seen < scan_state.version
  /\ next_scan_complete' =
       [next_scan_complete EXCEPT
          !.st = IF scan_state.value # "Scanning" /\ next_scan_complete.did_scan
                 THEN "done" ELSE "pending",
          !.did_scan = @ \/ scan_state.value = "Scanning",
          !.seen = scan_state.version]
  /\ UNCHANGED <<env_vars, scanner_vars, run_pc, notify, rx_open, emitted,
                 scan_state, observed, foreground_snapshot, poll_scheduled,
                 timers, scan_complete>>

\* The trees the facade is opened on.
FacadeTrees == {BaseTree(<<Rule("a", FALSE, FALSE)>>), NoDisk}

\* The state after Worktree::new: empty snapshots, the watch channel on
\* Scanning, the scanner thread about to run.
FacadeInit ==
  /\ NoAside
  /\ disk \in FacadeTrees
  /\ pending = <<>>
  /\ mutations = 0
  /\ last_mutation = NoMutation
  /\ background_snapshot = Snapshot(0, EmptyMap, EmptyMap)
  /\ scan_queue = {}
  /\ pc = "start"
  /\ call = Call("none", "none", Snapshot(0, EmptyMap, EmptyMap), {})
  /\ other_mount_paths = {}
  /\ run_pc = "begin"
  /\ notify = <<>>
  /\ rx_open = TRUE
  /\ emitted = <<>>
  /\ scan_state = Watch("Scanning", 1, Snapshot(0, EmptyMap, EmptyMap))
  /\ observed = <<>>
  /\ foreground_snapshot = Snapshot(0, EmptyMap, EmptyMap)
  /\ poll_scheduled = FALSE
  /\ timers = 0
  /\ scan_complete = NoFuture
  /\ next_scan_complete = NoFuture

\* A step of the run loop, the facade or the disk.
Facade(A) == A /\ UNCHANGED aside_vars

FacadeNext ==
  \/ Facade(RunBegin)
  \/ Facade(RunScanDirs)
  \/ Facade(RunWorkers)
  \/ Facade(\E i \in 1..2 : RunSendAfterScanDirs(i))
  \/ Facade(RunCallback)
  \/ Facade(\E n \in 1..(2 * (MaxMutations + 1)) : RunProcessEvents(n))
  \/ Facade(RunCallbackIdle)
  \/ Facade(RunDisk)
  \/ Facade(ObserveScanState)
  \/ Facade(TimerFires)
  \/ Facade(DropWorktree)
  \/ Facade(CallScanComplete)
  \/ Facade(PollScanComplete)
  \/ Facade(CallNextScanComplete)
  \/ Facade(PollNextScanComplete)

FacadeSpec == FacadeInit /\ [][FacadeNext]_vars

\* A worktree with another volume mounted below its root: the state after
\* BackgroundScanner::new, whose update_other_mount_paths has collected the
\* mount point.
MountInit ==
  /\ NoFacade
  /\ NoAside
  /\ disk \in {MountTree(r) : r \in RuleSets}
  /\ pending = <<>>
  /\ mutations = 0
  /\ last_mutation = NoMutation
  /\ background_snapshot = Snapshot(0, EmptyMap, EmptyMap)
  /\ scan_queue = {}
  /\ pc = "start"
  /\ call = Call("none", "none", Snapshot(0, EmptyMap, EmptyMap), {})
  /\ other_mount_paths = MountPoints

MountSpec == MountInit /\ [][Next]_vars

\* ------------------------------------------------------- the worker pool

\* The lock of BackgroundScanner::snapshot is free.
Free == 0

\* A worker holds a ScanJob, and with it a Sender of the scan queue.
Holding(worker) == worker.pc \in {"read_dir", "lock", "populate", "send"}

\* Mutant of recv_disconnected: recv gives up as soon as the queue is empty.
recv_on_empty(ch, ws) == ch = <<>>

\* rx.recv() returns Err: the queue is empty and every Sender is dropped,
\* the one of scan_dirs or process_events (dropped before the pool starts)
\* and the ones inside the ScanJobs queued or held by a worker.
recv_disconnected(ch, ws) ==
  ch = <<>> /\ \A v \in Workers : ~Holding(ws[v])

\* The paths of the jobs in the queue.
queued(ch) == {ch[i] : i \in 1..Len(ch)}

\* thread_pool.scoped: the Sender of the caller is dropped, every thread of
\* the pool enters its recv loop on the queue the caller has filled.
start_pool(jobs) ==
  /\ channel' = jobs
  /\ workers' = [w \in Workers |-> Worker("recv", <<>>, {}, {})]
  /\ job_log' = [NoJobs EXCEPT
                   !.sent = [p \in Paths |->
                               Cardinality({i \in 1..Len(jobs) : jobs[i] = p})]]

\* scan_dirs up to the start of the pool, its queue seeded with the root.
PoolScanDirs ==
  /\ ScanDirs
  /\ IF exists(disk, <<>>)
     THEN start_pool(<< <<>> >>)
     ELSE UNCHANGED <<workers, channel, job_log>>
  /\ UNCHANGED mutex

\* process_events up to the start of the pool: a ScanJob was sent for every
\* retained path found to be a directory, in the order of the batch.
PoolProcessEvents(n) ==
  /\ ProcessEvents(n)
  /\ LET kept == retained(sorted_events(SubSeq(pending, 1, n)))
         sends_job(p) == exists(disk, p) /\ disk[p].kind = "dir"
     IN IF exists(disk, <<>>)
        THEN start_pool(SelectSeq(kept, sends_job))
        ELSE UNCHANGED <<workers, channel, job_log>>
  /\ UNCHANGED mutex

\* `while let Ok(job) = rx.recv()`: a waiting worker takes the first job.
Recv(w) ==
  /\ pc = "scan" /\ workers[w].pc = "recv" /\ channel # <<>>
  /\ workers' = [workers EXCEPT
                   ![w] = Worker("read_dir", Head(channel), {}, {})]
  /\ channel' = Tail(channel)
  /\ scan_queue' = queued(Tail(channel))
  /\ job_log' = [job_log EXCEPT !.taken[Head(channel)] = @ + 1]
  /\ UNCHANGED <<env_vars, background_snapshot, pc, call, mutex>>

\* rx.recv() returns Err and the worker's closure ends.
Exit(w) ==
  /\ pc = "scan" /\ workers[w].pc = "recv"
  /\ recv_disconnected(channel, workers)
  /\ workers' = [workers EXCEPT ![w].pc = "exited"]
  /\ UNCHANGED <<env_vars, scanner_vars, mutex, channel, job_log>>

\* scan_dir's loop over fs::read_dir(&job.abs_path): the entries and jobs of
\* the children, or an error that ends scan_dir and drops the job.
ReadDir(w) ==
  /\ pc = "scan" /\ workers[w].pc = "read_dir"
  /\ LET job == workers[w].job
     IN workers' =
          [workers EXCEPT
             ![w] = IF disk[job].kind # "dir"
                    THEN Worker("recv", <<>>, {}, {})
                    ELSE Worker("lock", job, new_entries(disk, job),
                                new_jobs(disk, job))]
  /\ UNCHANGED <<env_vars, scanner_vars, mutex, channel, job_log>>

\* self.snapshot.lock() in scan_dir, and the start of populate_dir: the
\* lookup of the parent entry, which panics unless it is a PendingDir.
Lock(w) ==
  /\ pc = "scan" /\ workers[w].pc = "lock" /\ mutex = Free
  /\ mutex' = w
  /\ IF populate_dir_panics(background_snapshot, workers[w].job)
     THEN /\ pc' = "panicked"
          /\ workers' = [workers EXCEPT ![w].pc = "panicked"]
     ELSE /\ pc' = pc
          /\ workers' = [workers EXCEPT ![w].pc = "populate"]
  /\ UNCHANGED <<env_vars, background_snapshot, scan_queue, call, channel,
                 job_log>>

\* The rest of populate_dir, with the lock held: insert_ignore_file for a
\* child named .gitignore (Gitignore::new reads the file), one edit for the
\* parent and the children; then the lock is released.
PopulateDir(w) ==
  /\ pc = "scan" /\ workers[w].pc = "populate" /\ mutex = w
  /\ background_snapshot' =
       populate_dir(background_snapshot, disk, workers[w].job,
                    workers[w].new_entries)
  /\ mutex' = Free
  /\ workers' = [workers EXCEPT ![w].pc = "send"]
  /\ UNCHANGED <<env_vars, scan_queue, pc, call, channel, job_log>>

\* `for new_job in new_jobs { job.scan_queue.send(new_job) }`, one job (in
\* the order read_dir gave, which is any order); after the last one scan_dir
\* returns and the job is dropped.
SendJob(w) ==
  /\ pc = "scan" /\ workers[w].pc = "send"
  /\ IF workers[w].new_jobs = {}
     THEN /\ workers' = [workers EXCEPT ![w] = Worker("recv", <<>>, {}, {})]
          /\ UNCHANGED <<channel, scan_queue, job_log>>
     ELSE \E p \in workers[w].new_jobs :
            /\ workers' = [workers EXCEPT ![w].new_jobs = @ \ {p}]
            /\ channel' = Append(channel, p)
            /\ scan_queue' = scan_queue \cup {p}
            /\ job_log' = [job_log EXCEPT !.sent[p] = @ + 1]
  /\ UNCHANGED <<env_vars, background_snapshot, pc, call, mutex>>

\* Pool::scoped returns: every closure handed to pool.execute has ended.
scoped_returns(ws) == \A w \in Workers : ws[w].pc = "exited"

\* thread_pool.scoped returns once every worker has ended; then the first
\* pass of recompute_ignore_statuses.
PoolRecomputeNewIgnores ==
  /\ scoped_returns(workers)
  /\ RecomputeNewIgnores
  /\ workers' = [w \in Workers |-> Worker("off", <<>>, {}, {})]
  /\ UNCHANGED <<mutex, channel, job_log>>

\* The disk changes of one run of the pool specification.
PoolMutations == 2

\* The disk changes between two calls of the scanner.
PoolDisk ==
  /\ mutations < PoolMutations
  /\ \/ CreateDir(<<"b">>)
     \/ CreateDir(<<"a">>)
     \/ CreateFile(<<"a", ".gitignore">>, <<Rule("f", FALSE, FALSE)>>)
     \/ Rename(<<"a">>, <<"b">>)
     \/ Delete(<<"a">>)
     \/ RemoveRoot
  /\ UNCHANGED pool_vars

\* A step of the scanner with the threads of its pool, without run loop and
\* facade.
Pool(A) == A /\ UNCHANGED facade_vars /\ UNCHANGED probe

PoolTrees == {BaseTree(<<Rule("a", FALSE, FALSE)>>), NoDisk}

PoolInit ==
  /\ NoFacade
  /\ NoAside
  /\ disk \in PoolTrees
  /\ pending = <<>>
  /\ mutations = 0
  /\ last_mutation = NoMutation
  /\ background_snapshot = Snapshot(0, EmptyMap, EmptyMap)
  /\ scan_queue = {}
  /\ pc = "start"
  /\ call = Call("none", "none", Snapshot(0, EmptyMap, EmptyMap), {})
  /\ other_mount_paths = {}

PoolNext ==
  \/ Pool(PoolDisk)
  \/ Pool(PoolScanDirs)
  \/ Pool(\E n \in 1..(2 * (PoolMutations + 1)) : PoolProcessEvents(n))
  \/ Pool(\E w \in Workers : Recv(w))
  \/ Pool(\E w \in Workers : ReadDir(w))
  \/ Pool(\E w \in Workers : Lock(w))
  \/ Pool(\E w \in Workers : PopulateDir(w))
  \/ Pool(\E w \in Workers : SendJob(w))
  \/ Pool(\E w \in Workers : Exit(w))
  \/ Pool(PoolRecomputeNewIgnores)
  \/ Pool(RecomputeNewEntries /\ UNCHANGED pool_vars)

\* The scanner called directly, its pool running thread by thread.
PoolSpec == PoolInit /\ [][PoolNext]_vars

\* ----------------------------------------------- what the claims refer to

\* Snapshot::to_vec (tests): the (path, inode, is_ignored) triples in path
\* order.
to_vec(s) ==
  LET items == Items(s.entries)
  IN [i \in 1..Len(items) |->
        <<items[i].path, items[i].inode, items[i].is_ignored>>]

\* The workers of scan_dirs draining the queue, one job after the other.
RECURSIVE drain_queue(_, _, _)
drain_queue(s, d, queue) ==
  IF queue = {} THEN s
  ELSE LET job == CHOOSE j \in queue : TRUE
       IN IF d[job].kind # "dir" \/ populate_dir_panics(s, job)
          THEN drain_queue(s, d, queue \ {job})
          ELSE drain_queue(populate_dir(s, d, job, new_entries(d, job)), d,
                           (queue \ {job}) \cup new_jobs(d, job))

\* The snapshot of a fresh scanner after scan_dirs on the tree d (tests:
\* new_scanner.scan_dirs()), for a tree whose root exists.
fresh_scan(d) ==
  LET bumped == bump_scan_id(Snapshot(0, EmptyMap, EmptyMap))
      rooted == insert_entry(bumped, d, fs_entry(d, <<>>))
      scanned == drain_queue(rooted, d, {<<>>})
  IN compute_ignore_status_for_new_entries(
       compute_ignore_status_for_new_ignores(scanned))

\* scan_dirs has returned, or process_events has returned true.
Quiescent == pc = "idle"

\* The last call was a process_events that returned true and no event is
\* left undelivered.
AllDelivered ==
  pc = "idle" /\ call.op = "process_events" /\ pending = <<>>

\* -------------------------------------------------------------------- C1

\* C1: once every event of the disk mutations has been delivered and the
\* last process_events has returned, the scanner's snapshot equals, as the
\* path-ordered list of (path, inode, is_ignored), the snapshot a fresh
\* scanner gets from scan_dirs on the same tree.
C1_Convergence ==
  AllDelivered => to_vec(background_snapshot) = to_vec(fresh_scan(disk))

\* -------------------------------------------------------------------- C2

\* C2: after scan_dirs returns and after every process_events call that
\* returns true, no entry of the background snapshot has is_ignored = None.
C2_AllClassified ==
  Quiescent =>
    \A p \in DOMAIN background_snapshot.entries :
      background_snapshot.entries[p].is_ignored # "None"

\* A batch has returned that re-inserted an entry classified before and
\* inserted an entry that is new, and both are classified.
C2_Witness ==
  /\ pc = "idle" /\ call.op = "process_events"
  /\ \E p \in call.events :
       /\ p \in DOMAIN call.before.entries
       /\ p \in DOMAIN background_snapshot.entries
       /\ background_snapshot.entries[p].is_ignored # "None"
  /\ \E p \in DOMAIN background_snapshot.entries :
       /\ p \notin DOMAIN call.before.entries
       /\ background_snapshot.entries[p].is_ignored # "None"

\* -------------------------------------------------------------------- C3

\* scan_dirs or process_events has returned (true or false).
Returned == pc \in {"idle", "stopped"}

\* C3: after scan_dirs returns and after every process_events call returns,
\* every key D of the ignore map has an entry for D and one for
\* D/.gitignore.
C3_IgnoresResolve ==
  Returned =>
    \A dir \in DOMAIN background_snapshot.ignores :
      /\ has_entry(background_snapshot, dir)
      /\ has_entry(background_snapshot, dir \o <<GITIGNORE>>)

\* A batch has returned in which a registered .gitignore left the index
\* only through the event of an ancestor path (no retained event named the
\* .gitignore itself), and its key is gone from the ignore map.
C3_Witness ==
  /\ pc = "idle" /\ call.op = "process_events"
  /\ \E dir \in DOMAIN call.before.ignores :
       /\ dir \notin DOMAIN background_snapshot.ignores
       /\ (dir \o <<GITIGNORE>>) \notin call.events
       /\ \E e \in call.events : starts_with(dir, e)

\* -------------------------------------------------------------------- C4

\* The File entries of a snapshot in path order whose is_ignored is in `set`.
FilesWith(s, set) ==
  SelectSeq(Items(s.entries),
            LAMBDA e : e.kind = "File" /\ e.is_ignored \in set)

AnyStatus == {"None", "Some(true)", "Some(false)"}

DropFirst(seq, k) == SubSeq(seq, k + 1, Len(seq))

\* The start indices tried: every index up to the size of the path universe,
\* which is at least file_count.
Starts == 0..Cardinality(Paths)

\* The part of C4 about files(k): exactly the File entries in path order
\* from the k-th on, nothing once k >= file_count.
FilesFromKth ==
  \A k \in Starts :
    /\ files(background_snapshot, k)
         = DropFirst(FilesWith(background_snapshot, AnyStatus), k)
    /\ k >= file_count(background_snapshot)
         => files(background_snapshot, k) = <<>>

\* C4 (as stated): for every snapshot and every k, files(k) yields the File
\* entries in path order from the k-th on, and visible_files(k) yields the
\* File entries with is_ignored = Some(false) from the k-th of them on.
C4_Original ==
  /\ FilesFromKth
  /\ \A k \in Starts :
       visible_files(background_snapshot, k)
         = DropFirst(FilesWith(background_snapshot, {"Some(false)"}), k)

\* C4 (amended): files(k) as stated; visible_files(k) yields the File
\* entries whose is_ignored is not Some(true), so a file whose
\* classification is pending is yielded too; once a scan or batch has
\* returned these are exactly the files with Some(false).
C4_Amended ==
  /\ FilesFromKth
  /\ \A k \in Starts :
       visible_files(background_snapshot, k)
         = DropFirst(FilesWith(background_snapshot, {"None", "Some(false)"}), k)
  /\ Quiescent =>
       FilesWith(background_snapshot, {"None", "Some(false)"})
         = FilesWith(background_snapshot, {"Some(false)"})

\* A snapshot in the middle of a batch holding an ignored file, a pending
\* file and directories, where both iterators started at 1 yield something
\* and differ.
C4_Witness ==
  /\ pc \in {"scan", "pass2"}
  /\ FilesWith(background_snapshot, {"None"}) # <<>>
  /\ FilesWith(background_snapshot, {"Some(true)"}) # <<>>
  /\ visible_files(background_snapshot, 1) # <<>>
  /\ files(background_snapshot, 1) # visible_files(background_snapshot, 1)
  /\ \E p \in DOMAIN background_snapshot.entries :
       is_dir(background_snapshot.entries[p])

\* -------------------------------------------------------------------- C5

\* C5: in every reachable state, mid-scan included, file_count() is the
\* number of entries of kind File; PendingDir and Dir entries add 0.
C5_FileCount ==
  file_count(background_snapshot)
    = Cardinality({p \in DOMAIN background_snapshot.entries :
                     background_snapshot.entries[p].kind = "File"})

\* A snapshot mid-scan that holds a PendingDir, a Dir and two files.
C5_Witness ==
  /\ pc = "scan"
  /\ \E p, q \in DOMAIN background_snapshot.entries :
       /\ background_snapshot.entries[p].kind = "PendingDir"
       /\ background_snapshot.entries[q].kind = "Dir"
  /\ file_count(background_snapshot) >= 2

\* -------------------------------------------------------------------- C6

\* The number of File entries of the background snapshot whose is_ignored is
\* in `set`.
CountFiles(set) ==
  Cardinality({p \in DOMAIN background_snapshot.entries :
                 /\ background_snapshot.entries[p].kind = "File"
                 /\ background_snapshot.entries[p].is_ignored \in set})

\* C6 (as stated): in every reachable state visible_file_count() is the
\* number of File entries with is_ignored = Some(false); a file with None
\* or Some(true) is not counted.
C6_Original ==
  visible_file_count(background_snapshot) = CountFiles({"Some(false)"})

\* C6 (amended): in every reachable state visible_file_count() is the
\* number of File entries whose is_ignored is not Some(true): a pending
\* file (None) is counted as visible until it is classified; once a scan or
\* batch has returned this is the number of files with Some(false).
C6_Amended ==
  /\ visible_file_count(background_snapshot)
       = CountFiles({"None", "Some(false)"})
  /\ Quiescent => visible_file_count(background_snapshot)
                    = CountFiles({"Some(false)"})

\* A snapshot mid-batch with a pending file, an ignored file and a visible
\* classified file.
C6_Witness ==
  /\ pc \in {"scan", "pass2"}
  /\ CountFiles({"None"}) >= 1
  /\ CountFiles({"Some(true)"}) >= 1
  /\ CountFiles({"Some(false)"}) >= 1

\* -------------------------------------------------------------------- C7

\* C7: after scan_dirs returns and after every process_events call returns,
\* every entry at or under .git has is_ignored = Some(true), whatever the
\* rulesets say.
C7_GitIgnored ==
  Returned =>
    \A p \in DOMAIN background_snapshot.entries :
      starts_with(p, <<".git">>) =>
        background_snapshot.entries[p].is_ignored = "Some(true)"

\* A batch that re-inserted .git/f has returned while the root ruleset
\* whitelists the name f, and .git/f is ignored all the same.
C7_Witness ==
  /\ pc = "idle" /\ call.op = "process_events"
  /\ call.events \cap {<<".git">>, <<".git", "f">>} # {}
  /\ <<".git", "f">> \in DOMAIN background_snapshot.entries
  /\ background_snapshot.entries[<<".git", "f">>].is_ignored = "Some(true)"
  /\ <<>> \in DOMAIN background_snapshot.ignores
  /\ background_snapshot.ignores[<<>>].rules = <<Rule("f", FALSE, TRUE)>>

\* -------------------------------------------------------------------- C8

\* The walk C8 describes: the ancestors of path from the nearest to the
\* root; the first one whose ruleset matches path (a match of the subject,
\* so with the subject's is_dir flag) decides.
RECURSIVE nearest_match(_, _, _)
nearest_match(s, path, cur) ==
  IF Len(cur) = 0 \/ ~has_entry(s, parent(cur)) THEN "Ok(false)"
  ELSE LET dir == parent(cur)
           m == IF dir \in DOMAIN s.ignores
                THEN matched_path_or_any_parents(
                       s.ignores[dir].rules, strip_prefix(path, dir),
                       is_dir(entry_for_path(s, path)))
                ELSE "None"
       IN CASE m = "Whitelist" -> "Ok(false)"
            [] m = "Ignore" -> "Ok(true)"
            [] OTHER -> nearest_match(s, path, dir)

\* C8: for a path in the index and not under .git, is_path_ignored is
\* decided by the nearest ancestor whose ruleset matches the path (Whitelist
\* false, Ignore true), is false when none matches, and is an error when the
\* path is not in the index.
C8_NearestMatchDecides ==
  \A p \in Paths :
    IF p \notin DOMAIN background_snapshot.entries
    THEN is_path_ignored(background_snapshot, p) = "Err"
    ELSE ~starts_with(p, <<".git">>) =>
           is_path_ignored(background_snapshot, p)
             = nearest_match(background_snapshot, p, p)

\* -------------------------------------------------------------------- C9

\* C9 (as stated): after scan_dirs or any process_events invocation the
\* background snapshot's scan_id is strictly greater than before that
\* invocation.
C9_Original ==
  (Returned /\ call.op \in {"scan_dirs", "process_events"}) =>
    background_snapshot.scan_id > call.before.scan_id

\* C9 (amended): scan_id never decreases; it is strictly greater after
\* scan_dirs and after each process_events call that returns true than
\* before that call; a process_events call that returns false (the root
\* cannot be canonicalized) leaves scan_id as it was.
C9_Amended ==
  [][/\ background_snapshot'.scan_id >= background_snapshot.scan_id
     /\ (pc' = "idle" /\ pc # "idle") =>
          background_snapshot'.scan_id > call'.before.scan_id
     /\ pc' = "stopped" =>
          background_snapshot'.scan_id = call'.before.scan_id]_vars

\* A second batch has returned true with a scan_id above the one it was
\* called with.
C9_Witness ==
  /\ pc = "idle" /\ call.op = "process_events" /\ call.ret = "true"
  /\ call.before.scan_id >= 2
  /\ background_snapshot.scan_id > call.before.scan_id

\* ------------------------------------------------------------------- C10

\* The latest disk mutation was a rename and a batch has returned true with
\* no event left undelivered.
RenameProcessed ==
  /\ pc = "idle" /\ call.op = "process_events" /\ call.ret = "true"
  /\ last_mutation.kind = "rename"
  /\ pending = <<>>

\* The entry of a snapshot at a path agrees with the object on disk there.
AsOnDisk(s, p) ==
  /\ s.entries[p].inode = disk[p].ino
  /\ s.entries[p].kind = (IF disk[p].kind = "dir" THEN "Dir" ELSE "File")

expected_ignored(s, p) ==
  IF starts_with(p, <<".git">>) \/ nearest_match(s, p, p) = "Ok(true)"
  THEN "Some(true)" ELSE "Some(false)"

\* The batch that returned changed no .gitignore: the ignore map holds the
\* rulesets it held before the call and none was registered or touched by
\* this batch.
NoIgnoreChanged ==
  /\ DOMAIN background_snapshot.ignores = DOMAIN call.before.ignores
  /\ \A dir \in DOMAIN background_snapshot.ignores :
       /\ background_snapshot.ignores[dir].rules = call.before.ignores[dir].rules
       /\ background_snapshot.ignores[dir].scan_id < background_snapshot.scan_id
  /\ \A e \in call.events : file_name(e) # GITIGNORE

\* Every entry the batch created is classified as the registered rulesets
\* of its ancestors say.
NewEntriesClassified ==
  \A p \in DOMAIN background_snapshot.entries \ DOMAIN call.before.entries :
    background_snapshot.entries[p].is_ignored
      = expected_ignored(background_snapshot, p)

\* Pass 2 applied to a snapshot classifies exactly its entries whose
\* is_ignored is None and leaves the others as they are.
Pass2ClassifiesPending(s) ==
  LET after == compute_ignore_status_for_new_entries(s)
  IN /\ DOMAIN after.entries = DOMAIN s.entries
     /\ \A p \in DOMAIN s.entries :
          IF s.entries[p].is_ignored = "None"
          THEN after.entries[p].is_ignored # "None"
          ELSE after.entries[p] = s.entries[p]

\* C11: when a batch in which no .gitignore changed has ended, every entry
\* it created is classified according to the registered rulesets of its
\* ancestors (ignored under an ignored directory, not ignored where no
\* ruleset matches); and pass 2 classifies exactly the entries whose
\* is_ignored is None.
C11_NewEntriesFollowRules ==
  /\ pc = "pass2" => Pass2ClassifiesPending(background_snapshot)
  /\ (pc = "idle" /\ call.op = "process_events" /\ NoIgnoreChanged) =>
       NewEntriesClassified

\* ------------------------------------------------------------------- C12

\* The index in a sequence of emitted states of the Idle that ends the
\* initial scan: after Scanning, or after Scanning and Err.
FirstIdle(e) == IF Len(e) >= 2 /\ e[2] = "Err" THEN 3 ELSE 2

\* e begins as Scanning, optionally Err, Idle, and goes on alternating
\* Scanning and Idle, as far as it goes.
StatesInOrder(e) ==
  /\ e # <<>> => e[1] = "Scanning"
  /\ \A i \in FirstIdle(e)..Len(e) :
       e[i] = IF (i - FirstIdle(e)) % 2 = 0 THEN "Idle" ELSE "Scanning"

\* e is in order and ends with the Idle of the initial scan or of a batch.
EndsWithIdle(e) ==
  StatesInOrder(e) /\ Len(e) >= FirstIdle(e) /\ e[Len(e)] = "Idle"

\* The background snapshot is mutated only between the Scanning of a scan
\* or batch and its Idle.
MutatesWhileScanning ==
  background_snapshot' # background_snapshot =>
    emitted # <<>> /\ emitted[Len(emitted)] = "Scanning"

ScanCompleteResolves ==
  scan_complete.st = "pending" /\ scan_complete'.st = "done"

\* C13 as stated: when scan_complete resolves the facade's state is not
\* Scanning and the foreground snapshot equals the background snapshot as
\* it was when that state was observed.
C13_Original ==
  [][ScanCompleteResolves =>
       /\ scan_state.value # "Scanning"
       /\ foreground_snapshot = scan_state.background]_vars

\* C13 amended: when scan_complete resolves the facade's state is not
\* Scanning and the foreground snapshot is a state the background snapshot
\* had at or after the observation of that state: not of an earlier
\* scan_id, the background snapshot itself if that has not changed since
\* the observation, and the background snapshot itself if the scanner is
\* waiting for events and every state it emitted has been observed.
C13_Amended ==
  [][ScanCompleteResolves =>
       /\ scan_state.value # "Scanning"
       /\ foreground_snapshot.scan_id >= scan_state.background.scan_id
       /\ background_snapshot = scan_state.background =>
            foreground_snapshot = background_snapshot
       /\ (run_pc = "wait" /\ notify = <<>>) =>
            foreground_snapshot = background_snapshot]_vars

\* scan_complete was called during the initial scan and has resolved, and
\* the foreground snapshot holds the completed scan as it was observed.
C13_Witness ==
  /\ scan_complete.st = "done"
  /\ scan_complete.called_at = 0
  /\ scan_state.value = "Idle"
  /\ foreground_snapshot = scan_state.background
  /\ has_entry(foreground_snapshot, <<"a">>)

\* ------------------------------------------------------------------- C14

\* The states the facade has observed since next_scan_complete was called.
SinceCalled == SubSeq(observed, next_scan_complete.called_at + 1, Len(observed))

\* The state of the watch channel when next_scan_complete was called.
StateWhenCalled ==
  IF next_scan_complete.called_at = 0 THEN "Scanning"
  ELSE observed[next_scan_complete.called_at]

\* A Scanning to not-Scanning edge has passed since the call: counting the
\* state at the call, some Scanning is followed by another state.
EdgeSinceCalled ==
  LET states == <<StateWhenCalled>> \o SinceCalled
  IN \E i \in 1..(Len(states) - 1) :
       states[i] = "Scanning" /\ states[i + 1] # "Scanning"

\* C14: next_scan_complete does not resolve before a Scanning to
\* not-Scanning edge has passed since the call, and once the future has
\* been polled on the latest state of the watch channel after such an edge,
\* with the channel not on Scanning, it has resolved.
C14_NextScanComplete ==
  /\ next_scan_complete.st = "done" => EdgeSinceCalled
  /\ ( /\ next_scan_complete.st # "none"
       /\ next_scan_complete.seen = scan_state.version
       /\ scan_state.value # "Scanning"
       /\ EdgeSinceCalled ) => next_scan_complete.st = "done"

\* ------------------------------------------------------------------- C15

\* A step in which the facade forwards a state to the watch channel.
StateForwarded == observed' # observed

\* C15: a step that forwards a state replaces the foreground snapshot by
\* the background snapshot; at most one re-poll is pending at a time, and
\* poll_scheduled is true iff one is; from the first forwarded state on,
\* while the facade's state is Scanning a re-poll is pending; a re-poll
\* that fires when the state is not Scanning leaves none pending.
C15_RePoll ==
  /\ [](timers <= 1)
  /\ [](rx_open => (poll_scheduled <=> timers = 1))
  /\ []((rx_open /\ observed # <<>> /\ scan_state.value = "Scanning") =>
          timers = 1)
  /\ [][StateForwarded => foreground_snapshot' = background_snapshot]_vars
  /\ [][(rx_open' /\ timers' < timers /\ scan_state.value # "Scanning") =>
          (timers' = 0 /\ ~poll_scheduled')]_vars

\* A re-poll has fired during a scan and republished a partial result,
\* and its successor is pending.
C15_Witness ==
  /\ rx_open /\ scan_state.value = "Scanning" /\ timers = 1
  /\ observed = <<"Scanning">>
  /\ foreground_snapshot # scan_state.background
  /\ has_entry(foreground_snapshot, <<>>)

\* ------------------------------------------------------------------- C16

\* process_events has returned false: the root could not be canonicalized.
Aborted == pc = "stopped"

\* The aborted call returned false and left the background snapshot as it
\* was before the call, and the scanner does nothing further.
AbortLeavesBackground ==
  /\ [](Aborted => (call.op = "process_events" /\ call.ret = "false"
                    /\ background_snapshot = call.before))
  /\ [][Aborted => (background_snapshot' = background_snapshot
                    /\ call' = call /\ pc' = pc /\ pending' = pending
                    /\ emitted' = emitted)]_vars

\* C16: when process_events fails to canonicalize the root it returns
\* false, the background snapshot is as it was before the call, no later
\* batch is processed, and the facade publishes nothing of the batch:
\* whatever it publishes from then on is the background snapshot as it was
\* before the call, and once the facade has observed every emitted state
\* that is its foreground snapshot.
C16_AbortKeepsSnapshot ==
  /\ AbortLeavesBackground
  /\ [][(Aborted /\ foreground_snapshot' # foreground_snapshot) =>
          foreground_snapshot' = call.before]_vars
  /\ []((Aborted /\ rx_open /\ notify = <<>>) =>
          foreground_snapshot = call.before)

\* A batch was aborted after a scan that indexed a, and the facade has
\* observed every emitted state.
C16_Witness ==
  /\ Aborted /\ rx_open /\ notify = <<>>
  /\ call.before.scan_id = 1
  /\ has_entry(foreground_snapshot, <<"a">>)

\* ------------------------------------------------------------------- C17

\* C17: after scan_dirs and after any process_events calls the index holds
\* no entry at or below a path of other_mount_paths.
C17_MountsNeverIndexed ==
  Returned =>
    \A p \in DOMAIN background_snapshot.entries :
      \A m \in other_mount_paths : ~starts_with(p, m)

\* ------------------------------------------------------------------- C18

\* Snapshot::root_entry: entry_for_path("").unwrap(), a panic when the
\* index holds no entry for the root.
root_entry(s) ==
  IF has_entry(s, RootPath) THEN entry_for_path(s, RootPath)
  ELSE [panic |-> "unwrap on None"]

\* C18: root_entry() returns without panicking on every foreground
\* snapshot the facade holds.
C18_RootEntryPresent == "panic" \notin DOMAIN root_entry(foreground_snapshot)

\* ------------------------------------------------------------------- C19

\* run is at one of its sends: its next step is notify.send(state).
AtSend ==
  \/ run_pc \in {"begin", "send_second", "wait"}
  \/ run_pc \in {"in_scan_dirs", "in_process_events"} /\ pc = "idle"

\* The step of a send that fails: the receiving end is gone.
SendFails == AtSend /\ ~rx_open /\ run_pc' # run_pc

\* C19: a send that fails emits nothing and ends run (the callback returns
\* false); from then on the scanner emits nothing, does not mutate the
\* background snapshot, and passes no batch to process_events, the batch
\* whose Scanning send failed included.
C19_ReceiverDropCancels ==
  /\ [][SendFails => (run_pc' = "exited" /\ emitted' = emitted)]_vars
  /\ [](run_pc = "exited" => ~rx_open)
  /\ [][run_pc = "exited" =>
          (run_pc' = run_pc /\ emitted' = emitted /\ pending' = pending
           /\ background_snapshot' = background_snapshot
           /\ call' = call /\ pc' = pc)]_vars

\* The Scanning send of a batch failed after the initial scan had been
\* emitted: the batch is still pending and process_events was not called.
C19_Witness ==
  /\ run_pc = "exited" /\ pending # <<>>
  /\ emitted[Len(emitted)] = "Idle"
  /\ call.op = "scan_dirs"

\* ------------------------------------------------------------------- C20

\* The is_dir flags Snapshot::is_path_ignored passes to the rulesets it
\* consults on its walk up from path (`cur` is the local `entry`).
RECURSIVE consulted_flags(_, _, _)
consulted_flags(s, path, cur) ==
  IF Len(cur) = 0 \/ ~has_entry(s, parent(cur)) THEN {}
  ELSE LET parent_path == parent(cur)
           flag == is_dir(entry_for_path(s, cur))
       IN IF parent_path \in DOMAIN s.ignores
          THEN {flag} \cup
               (IF matched_path_or_any_parents(
                     s.ignores[parent_path].rules,
                     strip_prefix(path, parent_path), flag) = "None"
                THEN consulted_flags(s, path, parent_path) ELSE {})
          ELSE consulted_flags(s, path, parent_path)

\* C20: every flag is_path_ignored(p) passes to an ancestor's ruleset is
\* the is_dir flag of the entry p itself.
C20_SubjectFlag ==
  \A p \in DOMAIN background_snapshot.entries :
    ~starts_with(p, <<".git">>) =>
      consulted_flags(background_snapshot, p, p)
        \subseteq {is_dir(background_snapshot.entries[p])}

\* ------------------------------------------------------------------- C21

\* The index without the entry at p and without the entries below p.
WithoutSubtree(entries, p) ==
  [q \in {x \in DOMAIN entries : ~starts_with(x, p)} |-> entries[q]]

\* C21: on every snapshot the scanner holds and for every path p,
\* remove_path(p) leaves exactly the entries that are neither p nor below
\* p, each unchanged (in key order, as the index keeps them); if p has no
\* entry the index is unchanged.
C21_RemovesSubtreeOnly ==
  \A p \in Paths :
    LET after == remove_path(background_snapshot, p).entries
    IN /\ after = WithoutSubtree(background_snapshot.entries, p)
       /\ Items(after) =
            SelectSeq(Items(background_snapshot.entries),
                      LAMBDA e : ~starts_with(e.path, p))
       /\ p \notin DOMAIN background_snapshot.entries =>
            after = background_snapshot.entries

\* The index holds .git, .git/f and the sibling .gitignore, whose name
\* begins with ".git", and entries after them: remove_path(.git) removes
\* the two and keeps the rest.
C21_Witness ==
  /\ {<<".git">>, <<".git", "f">>, <<".gitignore">>, <<"a">>}
       \subseteq DOMAIN background_snapshot.entries
  /\ DOMAIN remove_path(background_snapshot, <<".git">>).entries
       = DOMAIN background_snapshot.entries \ {<<".git">>, <<".git", "f">>}


\* ------------------------------------------------------------------- C22

\* No entry of the snapshot lies directly under a parent entry that is
\* still PendingDir.
NoChildUnderPending(s) ==
  \A q \in DOMAIN s.entries :
    (q # RootPath /\ parent(q) \in DOMAIN s.entries) =>
      s.entries[parent(q)].kind # "PendingDir"

\* In this step of the background snapshot the entry at d goes from
\* PendingDir to Dir.
Populated(d) ==
  /\ d \in DOMAIN background_snapshot.entries
  /\ d \in DOMAIN background_snapshot'.entries
  /\ background_snapshot.entries[d].kind = "PendingDir"
  /\ background_snapshot'.entries[d].kind = "Dir"

\* The same step inserts every child scan_dir read and registers a child
\* .gitignore file under d with the snapshot's scan_id.
PopulatedWithChildren(d) ==
  /\ \A e \in new_entries(disk, d) :
       /\ e.path \in DOMAIN background_snapshot'.entries
       /\ background_snapshot'.entries[e.path] = e
       /\ (e.kind = "File" /\ file_name(e.path) = GITIGNORE) =>
            /\ d \in DOMAIN background_snapshot'.ignores
            /\ background_snapshot'.ignores[d].scan_id
                 = background_snapshot.scan_id
  /\ background_snapshot'.scan_id = background_snapshot.scan_id

\* C22: the step that turns a parent from PendingDir to Dir inserts all of
\* its children and registers a child .gitignore with the current scan_id;
\* neither the background snapshot nor a foreground snapshot cloned from
\* it holds a child under a parent that is still PendingDir, and the
\* foreground snapshot changes only to a clone of the background snapshot.
C22_PopulateAtomic ==
  /\ [][\A d \in DirPaths : Populated(d) => PopulatedWithChildren(d)]_vars
  /\ [](NoChildUnderPending(background_snapshot))
  /\ [](NoChildUnderPending(foreground_snapshot))
  /\ [][foreground_snapshot' # foreground_snapshot =>
          foreground_snapshot' = background_snapshot]_vars

\* The facade holds a clone taken in the middle of a scan: the root is
\* populated, with its .gitignore registered, and the directory a is still
\* PendingDir and has no children.
C22_Witness ==
  /\ has_entry(foreground_snapshot, <<"a">>)
  /\ foreground_snapshot.entries[<<"a">>].kind = "PendingDir"
  /\ foreground_snapshot.entries[RootPath].kind = "Dir"
  /\ RootPath \in DOMAIN foreground_snapshot.ignores
  /\ background_snapshot.entries[<<"a">>].kind = "Dir"
  /\ has_entry(background_snapshot, <<"a", "f">>)


\* ------------------------------------------------------------------- C23

\* The directories D for which the last batch retained an event naming
\* D/.gitignore.
IgnoreEventDirs ==
  {parent(p) : p \in {q \in call.events : file_name(q) = GITIGNORE}}

\* The Option<bool> that is_path_ignored's result becomes in set_ignored.
as_is_ignored(r) == IF r = "Ok(true)" THEN "Some(true)" ELSE "Some(false)"

\* The batch found D/.gitignore on disk as a file: the event was retained
\* and re-stat, so the index holds a File entry for it.
IgnoreFileFound(D) ==
  /\ has_entry(background_snapshot, D \o <<GITIGNORE>>)
  /\ background_snapshot.entries[D \o <<GITIGNORE>>].kind = "File"

\* D's ruleset is registered with the batch's scan_id if the batch found
\* the file D/.gitignore, and not registered if the file is gone.
IgnoreMarked(D) ==
  IF IgnoreFileFound(D)
  THEN /\ D \in DOMAIN background_snapshot.ignores
       /\ background_snapshot.ignores[D].scan_id
            = background_snapshot.scan_id
  ELSE D \notin DOMAIN background_snapshot.ignores

\* Every entry under D is classified as is_path_ignored now computes.
ReclassifiedUnder(D) ==
  \A q \in DOMAIN background_snapshot.entries :
    (q # D /\ starts_with(q, D)) =>
      background_snapshot.entries[q].is_ignored
        = as_is_ignored(is_path_ignored(background_snapshot, q))

\* C23: after a process_events call that retained an event for
\* D/.gitignore has returned true, D's ruleset carries the batch's scan_id
\* (or is removed if the file is gone) and every entry under D has the
\* is_ignored that is_path_ignored computes with the rulesets now
\* registered.
C23_IgnoreEventReclassifies ==
  (pc = "idle" /\ call.op = "process_events") =>
    \A D \in IgnoreEventDirs : IgnoreMarked(D) /\ ReclassifiedUnder(D)


\* ------------------------------------------------------------------- C24

\* The paths a cursor over the index can have accumulated as max_path: the
\* default and the paths of the entries.
CursorPaths == {RootPath} \cup DOMAIN background_snapshot.entries

\* Exact(a) < Exact(b) iff a < b, and the two are equal iff a = b.
ExactOrder(a, b) ==
  /\ PathSearch_cmp(Exact(a), Exact(b)) = "Less" <=> PathLess(a, b)
  /\ PathSearch_cmp(Exact(a), Exact(b)) = "Equal" <=> a = b

\* C24 as stated: for every search path a and every cursor path b,
\* Exact(a) < Exact(b) iff a < b, and Successor(a) < Exact(b) iff b does
\* not start with a, otherwise Successor(a) > Exact(b).
C24_Original ==
  \A a \in Paths : \A b \in CursorPaths :
    /\ ExactOrder(a, b)
    /\ PathSearch_cmp(Successor(a), Exact(b)) = "Less" <=> ~starts_with(b, a)
    /\ starts_with(b, a) => PathSearch_cmp(Successor(a), Exact(b)) = "Greater"

\* C24 amended: Exact(a) < Exact(b) iff a < b; Successor(a) < Exact(b) iff
\* b does not start with a and a < b; in every other case Successor(a) >
\* Exact(b), so Successor(a) is never equal to an Exact(b).
C24_Amended ==
  \A a \in Paths : \A b \in CursorPaths :
    /\ ExactOrder(a, b)
    /\ PathSearch_cmp(Successor(a), Exact(b)) = "Less" <=>
         (~starts_with(b, a) /\ PathLess(a, b))
    /\ PathSearch_cmp(Successor(a), Exact(b)) \in {"Less", "Greater"}

\* A batch has removed and re-inserted b while the index holds a, a/f and
\* b: the seeks of remove_path met a cursor path equal to the search path,
\* one that starts with it and one that does not.
C24_Witness ==
  /\ call.op = "process_events" /\ <<"b">> \in call.events
  /\ {<<"a">>, <<"a", "f">>, <<"b">>} \subseteq CursorPaths
  /\ PathSearch_cmp(Successor(<<"a">>), Exact(<<"a", "f">>)) = "Greater"
  /\ PathSearch_cmp(Successor(<<"a">>), Exact(<<"b">>)) = "Less"
  /\ PathSearch_cmp(Successor(<<"b">>), Exact(<<"a">>)) = "Greater"


\* ------------------------------------------------------------------- C25

\* The results of the comparisons a seek makes on its way, from position
\* pos with `before` accumulated, until it stops.
RECURSIVE seek_results(_, _, _, _, _, _)
seek_results(items, pos, before, dim, target, bias) ==
  IF pos > Len(items) THEN {}
  ELSE LET end == add_assign(before, summary(items[pos]))
           c == dim_cmp(dim, target, end)
       IN {c} \cup
          (IF c = "Less" \/ (bias = "Left" /\ c = "Equal") THEN {}
           ELSE seek_results(items, pos + 1, end, dim, target, bias))

\* The comparison results of the PathSearch seeks on a snapshot for the
\* path p: entry_for_path's seek(Exact(p), Left), remove_path's
\* slice(Exact(p), Left) and seek_forward(Successor(p), Left) from where
\* the slice ended, and pass 1's seek(Exact(p), Right).
path_seek_results(s, p) ==
  LET items == Items(s.entries)
      cut == seek(items, "PathSearch", Exact(p), "Left")
  IN seek_results(items, 1, default_summary, "PathSearch", Exact(p), "Left")
     \cup seek_results(items, cut, SummaryOf(items, cut - 1), "PathSearch",
                       Successor(p), "Left")
     \cup seek_results(items, 1, default_summary, "PathSearch", Exact(p),
                       "Right")

CollectedDirs(s) ==
  changed_ignore_parents(s, SortPaths(DOMAIN s.ignores), 1, <<>>)

\* No collected directory is an ancestor of another, and no entry is
\* streamed for two of them.
StreamedOnce(s) ==
  LET dirs == CollectedDirs(s)
  IN \A i \in 1..Len(dirs) : \A j \in 1..Len(dirs) :
       i # j =>
         /\ ~starts_with(dirs[j], dirs[i])
         /\ entries_under(s, dirs[i]) \cap entries_under(s, dirs[j]) = {}

\* The first pass of recompute_ignore_statuses takes this step.
PassOneStep == pc = "scan" /\ pc' = "pass2"

\* In a step within one scan_id the is_ignored of an entry that stays in
\* the index changes only from None to Some(b), or, in pass 1, from the
\* Some(b) it had before this scan began.
ChangesOncePerScan ==
  background_snapshot'.scan_id = background_snapshot.scan_id =>
    \A p \in DOMAIN background_snapshot.entries
               \cap DOMAIN background_snapshot'.entries :
      background_snapshot'.entries[p].is_ignored
          # background_snapshot.entries[p].is_ignored =>
        /\ background_snapshot'.entries[p].is_ignored # "None"
        /\ \/ background_snapshot.entries[p].is_ignored = "None"
           \/ /\ PassOneStep
              /\ call.before.scan_id < background_snapshot.scan_id
              /\ p \in DOMAIN call.before.entries
              /\ background_snapshot.entries[p].is_ignored
                   = call.before.entries[p].is_ignored

\* The step that begins a scan with a larger scan_id leaves every entry
\* that no retained event path covers as it is.
NewScanKeepsOthers ==
  background_snapshot'.scan_id # background_snapshot.scan_id =>
    \A p \in DOMAIN background_snapshot.entries :
      (\A q \in call'.events : ~starts_with(p, q)) =>
        /\ p \in DOMAIN background_snapshot'.entries
        /\ background_snapshot'.entries[p] = background_snapshot.entries[p]

\* C26: within one scan_id the is_ignored of an entry that stays in the
\* index changes at most once, from None to Some(b), or in pass 1 from the
\* Some(b) of an earlier scan_id; pass 1 streams no entry twice (no
\* collected directory is an ancestor of another) and pass 2 leaves every
\* entry that is not None as it is.
C26_ClassifiedOncePerScan ==
  /\ [][ChangesOncePerScan /\ NewScanKeepsOthers]_vars
  /\ []((pc = "scan" /\ scan_queue = {}) =>
          StreamedOnce(background_snapshot))
  /\ [][(pc = "pass2" /\ pc' = "idle") =>
          \A p \in DOMAIN background_snapshot.entries :
            background_snapshot.entries[p].is_ignored # "None" =>
              background_snapshot'.entries[p] =
                background_snapshot.entries[p]]_vars

\* A batch changed the root's rules: pass 1 has turned a/f, classified
\* Some(false) by the scan before, to Some(true).
C26_Witness ==
  /\ call.op = "process_events" /\ pc = "idle"
  /\ <<GITIGNORE>> \in call.events
  /\ <<"a", "f">> \in DOMAIN call.before.entries
  /\ call.before.entries[<<"a", "f">>].is_ignored = "Some(false)"
  /\ has_entry(background_snapshot, <<"a", "f">>)
  /\ background_snapshot.entries[<<"a", "f">>].is_ignored = "Some(true)"


\* ------------------------------------------------------------------- C27

\* process_events commits its local snapshot in this step.
CommitStep ==
  pc = "idle" /\ call'.op = "process_events" /\ call'.ret = "running"

\* After the commit the index holds for the retained path p the entry
\* just read from disk, or none if p is gone, and nothing below p.
Replaced(p) ==
  /\ IF exists(disk, p)
     THEN /\ p \in DOMAIN background_snapshot'.entries
          /\ background_snapshot'.entries[p] = fs_entry(disk, p)
     ELSE p \notin DOMAIN background_snapshot'.entries
  /\ \A q \in DOMAIN background_snapshot'.entries :
       starts_with(q, p) => q = p

\* C27: the one step in which a batch reaches the background snapshot
\* leaves for every retained event path p the fresh entry of p, or none,
\* and no entry below p; the scan jobs of the batch run after that step,
\* and a directory entry of the batch gets entries below it only when its
\* own scan job populates it.
C27_RemoveBeforeInsert ==
  /\ [][CommitStep =>
          /\ \A p \in call'.events : Replaced(p)
          /\ scan_queue' = {p \in call'.events : disk[p].kind = "dir"}]_vars
  /\ []((call.op = "process_events" /\ pc = "scan") =>
          \A p \in call.events :
            (p \in DOMAIN background_snapshot.entries /\
             background_snapshot.entries[p].kind = "PendingDir") =>
              \A q \in DOMAIN background_snapshot.entries :
                starts_with(q, p) => q = p)

\* A batch replaced the directory a, which had the entry a/f before: the
\* committed snapshot holds a fresh PendingDir a and no a/f, with the scan
\* job of a still queued.
C27_Witness ==
  /\ call.op = "process_events" /\ pc = "scan"
  /\ <<"a">> \in call.events /\ <<"a">> \in scan_queue
  /\ <<"a", "f">> \in DOMAIN call.before.entries
  /\ has_entry(background_snapshot, <<"a">>)
  /\ background_snapshot.entries[<<"a">>].kind = "PendingDir"
  /\ ~has_entry(background_snapshot, <<"a", "f">>)


\* ------------------------------------------------------------------- C28

\* process_events returns in this step, having passed the canonicalization
\* of the root.
ReturnStep == call.op = "process_events" /\ pc = "pass2" /\ pc' = "idle"

\* C28: when a process_events call that got past the canonicalization of
\* the root returns, it returns true; for every retained event path that
\* is not on disk the index holds no entry at it or below it, and every
\* retained event path that is on disk has its entry.
C28_VanishedPathRemoved ==
  [][ReturnStep =>
       /\ call'.ret = "true"
       /\ \A p \in call.events :
            IF exists(disk, p)
            THEN p \in DOMAIN background_snapshot'.entries
            ELSE \A q \in DOMAIN background_snapshot'.entries :
                   ~starts_with(q, p)]_vars

\* A batch with the events a and b of a rename of a to b has returned
\* true: a, indexed with a/f before, is gone from the index and b is
\* indexed.
C28_Witness ==
  /\ call.op = "process_events" /\ call.ret = "true"
  /\ call.events = {<<"a">>, <<"b">>}
  /\ <<"a", "f">> \in DOMAIN call.before.entries
  /\ \A q \in DOMAIN background_snapshot.entries : ~starts_with(q, <<"a">>)
  /\ has_entry(background_snapshot, <<"b", "f">>)


\* ------------------------------------------------------------------- C29

\* C29: after scan_dirs returns and after every process_events call
\* returns, every entry other than the root has an entry for its parent
\* path, of kind Dir.
C29_ParentIsDir ==
  Returned =>
    \A q \in DOMAIN background_snapshot.entries :
      q # RootPath =>
        /\ parent(q) \in DOMAIN background_snapshot.entries
        /\ background_snapshot.entries[parent(q)].kind = "Dir"



\* ---------------------------------------------------------------- C30

\* The step in which process_events takes the first n pending events.
BatchStep(n) ==
  /\ pc = "idle" /\ call'.op = "process_events"
  /\ n \in 1..Len(pending) /\ Len(pending') = Len(pending) - n

\* The event paths of the batch of n events.
BatchPaths(n) == {pending[i] : i \in 1..n}

\* The sequence of paths the loop of process_events works on for the batch.
Kept(n) == retained(sorted_events(SubSeq(pending, 1, n)))

NoTwoNested(S) ==
  \A p \in S : \A q \in S : starts_with(p, q) => p = q

\* Each retained path is worked on once, no retained path lies under another,
\* and the entries outside the retained subtrees are left as they were.
OncePerRetained(n) ==
  /\ call'.events = {Kept(n)[i] : i \in 1..Len(Kept(n))}
  /\ Cardinality(call'.events) = Len(Kept(n))
  /\ NoTwoNested(call'.events)
  /\ call'.ret = "running" =>
       \A q \in Paths :
         (\A p \in call'.events : ~starts_with(q, p)) =>
           /\ q \in DOMAIN background_snapshot'.entries
                <=> q \in DOMAIN background_snapshot.entries
           /\ q \in DOMAIN background_snapshot.entries =>
                background_snapshot'.entries[q] = background_snapshot.entries[q]

\* C30 as stated: the retained paths of a batch are exactly its event paths
\* under the root that have no other event path of the batch as an
\* ancestor; no two retained paths are ancestor and descendant; each
\* retained path is removed and re-read once.
C30_Original ==
  [][\A n \in 1..(2 * (MaxMutations + 1)) :
       BatchStep(n) =>
         /\ call'.events =
              {p \in BatchPaths(n) :
                 /\ strip_prefix_ok(p)
                 /\ \A q \in BatchPaths(n) :
                      q # p => ~abs_starts_with(p, q)}
         /\ OncePerRetained(n)]_vars

\* C30 amended: the retained paths of a batch are exactly its event paths
\* under the root that have no other event path under the root of the batch
\* as an ancestor (an event path outside the root is skipped and absorbs
\* nothing); no two retained paths are ancestor and descendant; each
\* retained path is removed and re-read once.
C30_Amended ==
  [][\A n \in 1..(2 * (MaxMutations + 1)) :
       BatchStep(n) =>
         /\ call'.events =
              {p \in BatchPaths(n) :
                 /\ strip_prefix_ok(p)
                 /\ \A q \in BatchPaths(n) :
                      (q # p /\ strip_prefix_ok(q)) => ~abs_starts_with(p, q)}
         /\ OncePerRetained(n)]_vars

\* One batch held the events a/f and a of a removed directory and an event
\* for a path above the root: a was retained, a/f absorbed.
C30_Witness ==
  /\ pc = "scan" /\ call.op = "process_events"
  /\ mutations = 2 /\ last_mutation.kind = "outside" /\ pending = <<>>
  /\ call.events = {<<"a">>}
  /\ <<"a", "f">> \in DOMAIN call.before.entries
  /\ <<"a", "f">> \notin DOMAIN background_snapshot.entries


\* ------------------------------------------------------------------- C36

\* The entry D/.gitignore was removed or inserted by the batch: a retained
\* event path is D/.gitignore or one of its ancestors.
TouchedByBatch(p) == \E e \in call.events : starts_with(p, e)

\* C36: when a process_events call returns true, every key D of the ignore
\* map has a non-directory entry D/.gitignore, and if the batch removed or
\* inserted that entry the ruleset stored for D is the one parsed from the
\* file during the batch; a .gitignore replaced by a directory of the same
\* name leaves no ruleset for D.
C36_IgnoreMapFresh ==
  [][ReturnStep =>
       \A D \in DOMAIN background_snapshot'.ignores :
         /\ has_entry(background_snapshot', D \o <<GITIGNORE>>)
         /\ background_snapshot'.entries[D \o <<GITIGNORE>>].kind = "File"
         /\ TouchedByBatch(D \o <<GITIGNORE>>) =>
              /\ background_snapshot'.ignores[D].rules
                   = parse_ignore(disk, D \o <<GITIGNORE>>)
              /\ background_snapshot'.ignores[D].scan_id
                   = background_snapshot'.scan_id]_vars


\* ------------------------------------------------------------------- C35

\* One object on disk as the two routes of the scanner see it: what lstat
\* gives for the name (kind and inode of the object itself), what the name
\* resolves to when it is a symbolic link (a file, a directory, or nothing
\* for a dangling link), and the names read_dir finds in the directory the
\* name resolves to.
Inodes == 1..3

NoTarget == [kind |-> "none", ino |-> 0]

DiskObject(kind, ino, target, children) ==
  [kind |-> kind, ino |-> ino, target |-> target, children |-> children]

\* A link and what it points to are two objects.
LinkInodes == {x \in Inodes \X Inodes : x[1] # x[2]}

Objects ==
  {DiskObject("file", i, NoTarget, {}) : i \in Inodes}
  \cup {DiskObject("dir", i, NoTarget, c) : i \in Inodes, c \in SUBSET {"f"}}
  \cup {DiskObject("symlink", x[1], [kind |-> "file", ino |-> x[2]], {}) :
          x \in LinkInodes}
  \cup {DiskObject("symlink", x[1], [kind |-> "dir", ino |-> x[2]], c) :
          x \in LinkInodes, c \in SUBSET {"f"}}
  \cup {DiskObject("symlink", i, [kind |-> "absent", ino |-> 0], {}) :
          i \in Inodes}

\* fs::symlink_metadata and DirEntry::metadata: the metadata of the object
\* itself, a symbolic link is not followed.
symlink_metadata(o) ==
  [found |-> TRUE, is_dir |-> o.kind = "dir", ino |-> o.ino,
   is_symlink |-> o.kind = "symlink"]

\* fs::metadata: a symbolic link is followed; NotFound for a dangling one.
metadata(o) ==
  IF o.kind # "symlink" THEN symlink_metadata(o)
  ELSE [found |-> o.target.kind # "absent",
        is_dir |-> o.target.kind = "dir",
        ino |-> o.target.ino,
        is_symlink |-> FALSE]

\* The Entry of the index with its is_symlink field, path left out.
LinkEntry(kind, inode, is_symlink) ==
  [kind |-> kind, inode |-> inode, is_symlink |-> is_symlink]

\* scan_dir(&job) on the object once an entry of kind PendingDir stands for
\* it: read_dir follows the name, populate_dir turns the entry into Dir and
\* inserts the children.
scan_job(o, e) ==
  IF e.kind = "PendingDir"
  THEN [entry |-> {[e EXCEPT !.kind = "Dir"]}, descendants |-> o.children]
  ELSE [entry |-> {e}, descendants |-> {}]

\* scan_dir meets the object as a child of the directory it reads: kind,
\* inode and is_symlink all come from child_entry.metadata().
scan_dir_child(o) ==
  LET child_metadata == symlink_metadata(o)
  IN scan_job(o, LinkEntry(IF child_metadata.is_dir THEN "PendingDir"
                                                    ELSE "File",
                           child_metadata.ino,
                           child_metadata.is_symlink))

\* An event names the object's path: fs_entry_for_path takes kind and inode
\* from fs::metadata and is_symlink from fs::symlink_metadata, and yields
\* None when fs::metadata finds nothing; process_events queues a ScanJob
\* for a directory entry.
event_route(o) ==
  LET m == metadata(o)
  IN IF ~m.found THEN [entry |-> {}, descendants |-> {}]
     ELSE scan_job(o, LinkEntry(IF m.is_dir THEN "PendingDir" ELSE "File",
                                m.ino,
                                symlink_metadata(o).is_symlink))

NotRun == [entry |-> {}, descendants |-> {"not run"}]

\* The initial scan reaches the object.
ScanDirMeets ==
  /\ probe.st = "object" /\ probe.scanned = NotRun
  /\ probe' = [probe EXCEPT !.scanned = scan_dir_child(probe.object)]
  /\ UNCHANGED <<env_vars, background_snapshot, scan_queue, pc, call,
                 facade_vars, pool_vars>>

\* An event batch names the object.
EventNames ==
  /\ probe.st = "object" /\ probe.evented = NotRun
  /\ probe' = [probe EXCEPT !.evented = event_route(probe.object)]
  /\ UNCHANGED <<env_vars, background_snapshot, scan_queue, pc, call,
                 facade_vars, pool_vars>>

LinkInit ==
  /\ NoFacade
  /\ disk = NoDisk
  /\ pending = <<>>
  /\ mutations = 0
  /\ last_mutation = NoMutation
  /\ background_snapshot = Snapshot(0, EmptyMap, EmptyMap)
  /\ scan_queue = {}
  /\ pc = "start"
  /\ call = Call("none", "none", Snapshot(0, EmptyMap, EmptyMap), {})
  /\ other_mount_paths = {}
  /\ NoPool
  /\ probe \in {[st |-> "object", object |-> o, scanned |-> NotRun,
                 evented |-> NotRun] : o \in Objects}

LinkNext == ScanDirMeets \/ EventNames

\* One object on disk, reached by the initial scan and by an event.
LinkSpec == LinkInit /\ [][LinkNext]_vars

\* C35: for every object on disk the entry scan_dir makes when it meets
\* the object as a child and the entry made when an event names the
\* object's path have the same kind and inode, and the same descendants get
\* indexed below them on both routes, symbolic links included.
C35_RouteIndependent ==
  (probe.st = "object" /\ probe.scanned # NotRun /\ probe.evented # NotRun) =>
    /\ probe.scanned.entry # {} /\ probe.evented.entry # {}
    /\ \A e \in probe.scanned.entry : \A x \in probe.evented.entry :
         e.kind = x.kind /\ e.inode = x.inode
    /\ probe.scanned.descendants = probe.evented.descendants


\* ------------------------------------------------------------------- C34

\* The facade has observed Scanning and nothing can follow it: the scanner
\* thread is over and no message is in flight.
ScanningForever ==
  /\ rx_open /\ observed # <<>>
  /\ scan_state.value = "Scanning"
  /\ RunOver /\ notify = <<>>

\* C34: every Scanning the facade observes is followed by a non-Scanning
\* state, whatever process_events returns; so the watch channel of a live
\* Worktree never holds an observed Scanning once the scanner is over and no
\* message is in flight, the state in which scan_complete() and
\* next_scan_complete() can no longer resolve and every timer that fires
\* spawns the next one.
C34_ScanningEnds == ~ScanningForever


\* ------------------------------------------------------------------- C31

\* The steps of one thread of the pool.
WorkerStep(w) ==
  Recv(w) \/ ReadDir(w) \/ Lock(w) \/ PopulateDir(w) \/ SendJob(w) \/ Exit(w)

\* The thread that called thread_pool.scoped goes on once the pool is over:
\* the step PoolRecomputeNewIgnores takes.
PoolReturns == pc = "scan" /\ scoped_returns(workers) /\ pc' = "pass2"

\* The second pass ends and the scanner call returns: the step
\* RecomputeNewEntries takes.
PassTwoReturns == pc = "pass2" /\ pc' = "idle"

\* The pool specification with every thread of the pool and the thread that
\* waits for the pool scheduled fairly.
PoolFairSpec ==
  /\ PoolSpec
  /\ \A w \in Workers : WF_vars(Pool(WorkerStep(w)))
  /\ WF_pc(PoolReturns)
  /\ WF_pc(PassTwoReturns)

\* A job is taken as often as it was sent at most, two workers never hold
\* the same job, and once the pool is over every job sent was taken once.
TakenOnce ==
  /\ \A p \in Paths : job_log.taken[p] <= job_log.sent[p]
  /\ \A w \in Workers : \A v \in Workers :
       (w # v /\ Holding(workers[w]) /\ Holding(workers[v])) =>
         workers[w].job # workers[v].job
  /\ scoped_returns(workers) =>
       \A p \in Paths : job_log.taken[p] = job_log.sent[p]

\* A worker has ended only if no job is queued and no worker runs a job.
NoEarlyExit ==
  \A w \in Workers :
    workers[w].pc = "exited" =>
      channel = <<>> /\ \A v \in Workers : ~Holding(workers[v])

\* C31: under fair scheduling every queued ScanJob is eventually taken, by
\* one worker; no worker ends while a job is queued or a running job may
\* still send children; all workers end after the last job, and scan_dirs
\* and the scan phase of process_events go on to return.
C31_PoolTerminates ==
  /\ [](TakenOnce /\ NoEarlyExit)
  /\ \A p \in Paths : (p \in queued(channel)) ~> (p \notin queued(channel))
  /\ (pc = "scan") ~> scoped_returns(workers)
  /\ (pc = "scan") ~> (pc = "idle")

\* One worker waits on the empty queue while the other runs a job that
\* still has a child job to send.
C31_Witness ==
  /\ pc = "scan" /\ channel = <<>>
  /\ workers[1].pc = "recv"
  /\ workers[2].pc = "send" /\ workers[2].new_jobs # {}


\* ------------------------------------------------------------------- C32

\* populate_dir calls insert_ignore_file, and with it Gitignore::new on the
\* file, for a child that is a file named .gitignore.
reads_ignore_file(children) ==
  \E e \in children : ~is_dir(e) /\ file_name(e.path) = GITIGNORE

\* The next step of the worker touches the filesystem: the directory read
\* and the stats of scan_dir's loop, or the file read inside populate_dir.
FsAccess(worker) ==
  \/ worker.pc = "read_dir"
  \/ worker.pc = "populate" /\ reads_ignore_file(worker.new_entries)

\* C32: a thread of the scanner holds the lock of the background snapshot
\* only while it applies in-memory edits; no stat, directory read or file
\* read is made by the thread that holds the lock.
C32_NoFsUnderMutex ==
  \A w \in Workers :
    /\ mutex = w => workers[w].pc = "populate"
    /\ FsAccess(workers[w]) => mutex # w


\* ------------------------------------------------------------------- C33

\* The paths of the jobs queued or held by a worker, each as often as it is
\* there.
jobs_alive(p) ==
  Cardinality({i \in 1..Len(channel) : channel[i] = p})
    + Cardinality({w \in Workers : Holding(workers[w]) /\ workers[w].job = p})

\* The entry of the job's directory is there and is a PendingDir.
OnPendingDir(job) ==
  /\ has_entry(background_snapshot, job)
  /\ background_snapshot.entries[job].kind = "PendingDir"

\* C33: in every interleaving of the workers, a job that is queued, read or
\* about to be applied by populate_dir targets a directory whose entry is a
\* PendingDir; no path gets more than one job in a scan or batch and no two
\* jobs target the same path; the unwrap and the unreachable!() of
\* populate_dir are never executed.
C33_JobsOnPendingDirs ==
  /\ pc # "panicked"
  /\ \A w \in Workers :
       /\ workers[w].pc # "panicked"
       /\ workers[w].pc \in {"read_dir", "lock", "populate"} =>
            OnPendingDir(workers[w].job)
  /\ \A i \in 1..Len(channel) : OnPendingDir(channel[i])
  /\ \A p \in Paths : job_log.sent[p] <= 1 /\ jobs_alive(p) <= 1

\* In a batch that sent jobs for two directories, one worker is inside
\* populate_dir while the other waits for the lock with its own job.
C33_Witness ==
  /\ call.op = "process_events" /\ pc = "scan"
  /\ workers[1].pc = "populate" /\ workers[2].pc = "lock"
  /\ workers[1].job # workers[2].job

====
